---- MODULE Spec2Model ----
(***************************************************************************)
(* Model of the rate limiter's decision core: the atomic token-bucket      *)
(* script run by the store, the bucket engine that dispatches it, the      *)
(* override manager with its cache, and the hierarchical decisioner.       *)
(*                                                                         *)
(* Numbers.  The script computes in Lua doubles.  Here a token count is a  *)
(* whole number of micro-tokens (ONE = one token), a time is a whole       *)
(* number of milliseconds and a refill rate is a whole number of           *)
(* milli-tokens per second, which is the same as micro-tokens per          *)
(* millisecond: elapsed_ms * rate is then exactly the refill in            *)
(* micro-tokens, with no rounding.  The bounded inputs below keep every    *)
(* value far inside the 53-bit mantissa of a double and inside the 14      *)
(* significant digits that Lua's tostring writes, so the stored strings    *)
(* read back as the numbers that were written.  Percentages are compared   *)
(* by cross-multiplication, which is the exact value of the comparison     *)
(* the script makes.                                                       *)
(***************************************************************************)
EXTENDS Integers, Sequences, FiniteSets, TLC

VARIABLES
    now,        \* wall clock, ms (Date.now() of the clients and of the store)
    ticks,      \* how many times the clock has advanced (bounds the run)
    store,      \* the shared store: bucket key -> record or NoRecord
    cfg,        \* the parameters the bucket under test is evaluated with
    last,       \* the most recent evaluation of the script, with what it read and wrote
    hist,       \* counters over the run of the bucket under test
    pending,    \* worker -> the EVALSHA it has sent and the store has not yet run
    log,        \* the evaluations the store has run, in the order it ran them
    policies,   \* the policy store: tenant policies and the global policy
    overrides,  \* the override collection of the document store
    cache,      \* the override manager's cache: cache key -> entry
    decision,   \* the most recent decision of the decisioner, with what it saw
    lookup,     \* the most recent direct getActiveOverride call, with what it saw
    reqs,       \* counters over the run of the service
    applyCall,  \* the most recent applyOverride call: its arguments and what it returned
    env,        \* the stores as the service finds them: reachable or not, scripts cached or not
    scriptsLoaded, \* RedisClient.scriptsLoaded
    breaker,    \* the circuit breaker of the decisioner: its configuration and fields
    fallback,   \* the buckets of the fallback limiter: bucket key -> bucket
    calls,      \* the operations running under the circuit breaker, and its last event
    deletedAt,  \* when deleteOverride last removed an override (observed by the run)
    fbLog,      \* the answers of the fallback limiter, in order (observed by the run)
    pc,         \* the policy cache with the tenant policies of the store and its reads in flight
    job,        \* the abuse detection job: its fields and the position of its run
    cli         \* the script state of the Redis client and the position of its call

clockVars == <<now, ticks>>

primVars == <<cfg, last, hist>>

concVars == <<pending, log>>

svcVars == <<policies, overrides, cache, decision, lookup, reqs>>

\* What the runs of the buckets, the decisioner and the override manager never touch.
\* What the runs of the service behind the circuit breaker never touch.
\* What only the runs of the policy cache and of the detection job touch.
lateVars == <<pc, job, cli>>

auxVars == <<fbLog, lateVars>>

extVars == <<applyCall, env, scriptsLoaded, breaker, fallback, calls, deletedAt,
             auxVars>>

vars == <<clockVars, store, primVars, concVars, svcVars, extVars>>

----------------------------------------------------------------------------
(* Units and bounds *)

\* One token, in micro-tokens ("current_tokens - 1").
ONE == 1000 * 1000

\* ttl_seconds handed to the script by the client.
TtlSeconds == 3600

TtlMs == TtlSeconds * 1000

\* How many times the clock may advance in a run.
MaxTicks == 3

\* How many evaluations of the bucket under test a run may hold.
MaxEvals == 10

\* The clock advances by half a second or by a whole key lifetime.
TickSteps == {500, TtlMs}

Min(a, b) == IF a <= b THEN a ELSE b

Max(a, b) == IF a >= b THEN a ELSE b

\* Integer part of num/den for den > 0, rounding toward zero: what the store
\* does to a Lua number it returns as an integer reply.
Trunc(num, den) == IF num >= 0 THEN num \div den ELSE -((-num) \div den)

\* ceil(num/den) for den > 0.
CeilDiv(num, den) == -((-num) \div den)

----------------------------------------------------------------------------
(* The bucket record of the store *)

NoRecord == [absent |-> TRUE]

Record(tokens, lastRefill, expireAt) ==
    [tokens |-> tokens, last_refill_ms |-> lastRefill, expire_at |-> expireAt]

\* HMGET at store time t: an expired key reads as absent.
Live(rec, t) == IF rec # NoRecord /\ rec.expire_at > t THEN rec ELSE NoRecord

\* usage_pct >= pct, where usage_pct = (capacity - tokens) / capacity * 100.
UsageGeq(capacity, tokens, pct) == (capacity - tokens) * 100 >= pct * capacity

\* math.min(capacity, tokens + elapsed * rate), computed so that the product
\* is never formed once it is known to exceed what the bucket can take.
Refilled(capacity, tokens, rate, elapsed) ==
    IF elapsed >= CeilDiv(capacity - tokens, rate)
    THEN capacity
    ELSE Min(capacity, tokens + elapsed * rate)

----------------------------------------------------------------------------
(* TOKEN_BUCKET_LUA_SCRIPT: one atomic evaluation of one bucket *)

\* A slip: usage taken from the tokens left instead of the tokens consumed.
PreHardOnTokensLeft(capacity, tokens, hard) == UsageGeq(capacity, capacity - tokens, hard)

\* "if usage_pct >= hard_threshold_pct" before consumption.
PreHard(capacity, tokens, hard) == UsageGeq(capacity, tokens, hard)

\* A slip: no guard after consumption, as in the batch script.
GuardHitNever(capacity, tokensAfter, hard) == FALSE

\* A slip: the guard compares with > instead of >=.
GuardHitStrict(capacity, tokensAfter, hard) ==
    (capacity - tokensAfter) * 100 > hard * capacity

\* "if usage_pct >= hard_threshold_pct" after consumption: the overshoot guard.
GuardHit(capacity, tokensAfter, hard) == UsageGeq(capacity, tokensAfter, hard)

\* "elseif usage_pct >= soft_threshold_pct", before and after consumption.
InSoft(capacity, tokens, soft) == UsageGeq(capacity, tokens, soft)

\* A slip: the record is written whatever the outcome.
PersistAlways(allowed, before, written) == written

\* "if allowed == 1 then HMSET ... EXPIRE ... end": what the key holds after the call.
Persist(allowed, before, written) == IF allowed THEN written ELSE before

\* The script on the value `raw` of the key, at store time t, with the
\* client's ARGV.  Yields the reply and the value of the key afterwards.
Script(raw, capacity, rate, now_ms, soft, hard, t) ==
    LET rec      == Live(raw, t)
        tokens0  == IF rec = NoRecord THEN capacity ELSE rec.tokens
        refill0  == IF rec = NoRecord THEN now_ms ELSE rec.last_refill_ms
        elapsed  == now_ms - refill0
        tokens1  == IF elapsed > 0
                    THEN Refilled(capacity, tokens0, rate, elapsed)
                    ELSE tokens0
        refill1  == IF elapsed > 0 THEN now_ms ELSE refill0
        preHard  == PreHard(capacity, tokens1, hard)
        preSoft  == ~preHard /\ InSoft(capacity, tokens1, soft)
        tokens2  == tokens1 - ONE
        guard    == ~preHard /\ GuardHit(capacity, tokens2, hard)
        allowed  == ~preHard /\ ~guard
        state    == IF preHard \/ guard THEN 2
                    ELSE IF InSoft(capacity, tokens2, soft) \/ preSoft THEN 1
                    ELSE 0
        \* the refund "current_tokens + 1" undoes the decrement
        tokens   == IF allowed THEN tokens2 ELSE tokens1
        \* usage_pct is not recomputed after the refund
        usedFor  == IF preHard THEN tokens1 ELSE tokens2
        written  == Record(tokens, refill1, t + TtlMs)
    IN  [allowed    |-> allowed,
         state      |-> state,
         tokens     |-> Trunc(tokens, ONE),
         usage_pct  |-> Trunc((capacity - usedFor) * 100, capacity),
         realTokens |-> tokens,
         preTokens  |-> tokens1,
         read       |-> rec,
         after      |-> Persist(allowed, raw, written)]

----------------------------------------------------------------------------
(* One bucket, evaluated by a client with the clock of the store *)

\* The key of the bucket under test.
PrimKey == "{tenant:acme}:bucket"

\* burst_capacity of the bucket under test, in tokens.
Capacities == {1, 2, 6}

\* refill_rate_per_sec, in milli-tokens per second.
Rates == {1, 1000, 2000}

\* <<soft_threshold_pct, hard_threshold_pct>>; soft = hard when no soft
\* threshold is configured.
Thresholds == {<<100, 100>>, <<100, 110>>, <<50, 100>>, <<100, 150>>, <<100, 200>>}

NoEval == [none |-> TRUE]

NoCall == [idle |-> TRUE]

\* The clients that evaluate the bucket concurrently.
Workers == {"w1", "w2"}

\* No call in flight and none run yet.
ConcIdle ==
    /\ pending = [w \in Workers |-> NoCall]
    /\ log = <<>>

\* The service around the bucket is not running.
NoPolicies == [none |-> TRUE]

NoDecision == [none |-> TRUE]

NoLookup == [none |-> TRUE]

NoApplied == [none |-> TRUE]

\* Both stores reachable, the script in the script cache of the bucket store.
Healthy == [redis |-> "up", scripts |-> TRUE, mongo |-> "up"]

\* A circuit breaker as its constructor leaves it.
NewBreaker(config) ==
    [config |-> config, state |-> "CLOSED", failures |-> 0, successes |-> 0,
     next_attempt_time |-> 0]

NoConfig == [unset |-> TRUE]

NoEvent == [none |-> TRUE]

NotDeleted == [never |-> TRUE]

NoCache == [none |-> TRUE]

NoJob == [none |-> TRUE]

NoClient == [none |-> TRUE]

AuxIdle ==
    /\ fbLog = << >>
    /\ pc = NoCache
    /\ job = NoJob
    /\ cli = NoClient

ExtIdle ==
    /\ AuxIdle
    /\ applyCall = NoApplied
    /\ env = Healthy
    /\ scriptsLoaded = TRUE
    /\ breaker = NewBreaker(NoConfig)
    /\ fallback = << >>
    /\ calls = [running |-> 0, event |-> NoEvent]
    /\ deletedAt = NotDeleted

SvcIdle ==
    /\ policies = NoPolicies
    /\ overrides = {}
    /\ cache = << >>
    /\ decision = NoDecision
    /\ lookup = NoLookup
    /\ ExtIdle
    /\ reqs = [checks |-> 0, lookups |-> 0, creates |-> 0, deletes |-> 0]

PrimInit ==
    /\ now = 0
    /\ ticks = 0
    /\ store = [k \in {PrimKey} |-> NoRecord]
    /\ cfg \in [capacity : {c * ONE : c \in Capacities},
                rate     : Rates,
                th       : Thresholds]
    /\ last = NoEval
    /\ hist = [evals |-> 0, allowed |-> 0, firstMs |-> 0,
               epochMs |-> 0, epochAllowed |-> 0]
    /\ ConcIdle
    /\ SvcIdle

\* What the single-client run never touches.
PrimFrame == UNCHANGED <<concVars, svcVars, extVars>>

\* Date.now() moves on.
Tick ==
    /\ ticks < MaxTicks
    /\ \E d \in TickSteps : now' = now + d
    /\ ticks' = ticks + 1
    /\ UNCHANGED <<store, cfg, last, hist>>
    /\ PrimFrame

\* The counters of the run after reply r to an evaluation stamped now_ms.
Counted(h, r, now_ms) ==
    LET fresh == r.read = NoRecord
        one   == IF r.allowed THEN 1 ELSE 0
    IN  [evals        |-> h.evals + 1,
         allowed      |-> h.allowed + one,
         firstMs      |-> IF h.evals = 0 THEN now_ms ELSE h.firstMs,
         epochMs      |-> IF fresh THEN now_ms ELSE h.epochMs,
         epochAllowed |-> IF fresh THEN one ELSE h.epochAllowed + one]

\* checkTokenBucket: EVALSHA of the script with currentTimeMs = Date.now().
Evaluate ==
    /\ hist.evals < MaxEvals
    /\ LET r == Script(store[PrimKey], cfg.capacity, cfg.rate, now,
                       cfg.th[1], cfg.th[2], now)
       IN  /\ store' = [store EXCEPT ![PrimKey] = r.after]
           /\ last' = r @@ [before |-> store[PrimKey], at |-> now]
           /\ hist' = Counted(hist, r, now)
    /\ UNCHANGED <<now, ticks, cfg>>
    /\ PrimFrame

PrimNext == Tick \/ Evaluate

SpecPrim == PrimInit /\ [][PrimNext]_vars

----------------------------------------------------------------------------
(* Claims about the primitive, under SpecPrim *)

\* floor(rate * ms / ONE): whole tokens refilled in ms milliseconds.
RefillFloor(rate, ms) == (rate * (ms \div 1000) + (rate * (ms % 1000)) \div 1000) \div 1000

\* a < 100 * rate * ms, without forming the product.
BelowRefill(a, rate, ms) == a < 0 \/ ms >= a \div (100 * rate) + 1

\* C1 as stated: over the whole run, from the first evaluation (bucket full,
\* nothing stored) to the latest one W seconds later, the number of allowed
\* evaluations is at most C + floor(r * W), whatever soft_pct and hard_pct are.
C1_SpecBound ==
    last # NoEval =>
        hist.allowed <= cfg.capacity \div ONE + RefillFloor(cfg.rate, last.at - hist.firstMs)

\* C1 as amended: counting from the evaluation that found no record (the
\* first one, or the first after the key expired), the number N of allowed
\* evaluations up to W seconds later satisfies N < C * hard_pct / 100 + r * W.
C1_AllowedBound ==
    last # NoEval =>
        BelowRefill(hist.epochAllowed * 100 * ONE - cfg.capacity * cfg.th[2],
                    cfg.rate, last.at - hist.epochMs)

\* Several evaluations were allowed, over a positive span of time, in an
\* epoch that began when the key had expired.
C1_Witness ==
    /\ last # NoEval
    /\ last.allowed
    /\ hist.epochAllowed >= 2
    /\ last.at > hist.epochMs
    /\ hist.epochMs > hist.firstMs

\* C2: a denied evaluation leaves the key's record and expiry as they were;
\* an allowed one writes the record and sets the expiry ttl_s from now.
C2_DenyWritesNothing ==
    last # NoEval =>
        IF last.allowed
        THEN /\ store[PrimKey] # NoRecord
             /\ store[PrimKey].tokens = last.realTokens
             /\ store[PrimKey].expire_at = last.at + TtlMs
        ELSE store[PrimKey] = last.before

\* A denied evaluation of a stored, live record that a write would have changed.
C2_Witness ==
    /\ last # NoEval
    /\ ~last.allowed
    /\ last.read # NoRecord
    /\ last.at > last.read.last_refill_ms
    /\ last.preTokens > last.read.tokens

C4_StoredBelowHard ==
    store[PrimKey] # NoRecord =>
        ~UsageGeq(cfg.capacity, store[PrimKey].tokens, cfg.th[2])

\* The guard has just refused the token that would have taken a stored
\* record to hard_pct.
C4_Witness ==
    /\ last # NoEval
    /\ last.state = 2
    /\ last.read # NoRecord
    /\ ~UsageGeq(cfg.capacity, last.read.tokens, cfg.th[2])
    /\ UsageGeq(cfg.capacity, last.read.tokens - ONE, cfg.th[2])
    /\ cfg.th[2] > 100

----------------------------------------------------------------------------
(* One bucket, evaluated by several clients at once.  A client stamps its  *)
(* call with its own Date.now() and sends it; the store runs the calls it  *)
(* receives one script at a time, in the order they arrive.                *)

\* How many calls a run may hold, in flight or run.
MaxCalls == 3

\* How many times the clock may advance while the clients race.
MaxConcTicks == 2

\* The clock advances by half a second.
ConcSteps == {500}

\* The bucket the clients race for: refilled at one or two tokens a second.
ConcRates == {1000, 2000}

ConcThresholds == {<<100, 100>>, <<100, 150>>, <<100, 200>>}

InFlight == {w \in Workers : pending[w] # NoCall}

ConcInit ==
    /\ now = 0
    /\ ticks = 0
    /\ store = [k \in {PrimKey} |-> NoRecord]
    /\ cfg \in [capacity : {ONE, 2 * ONE},
                rate     : ConcRates,
                th       : ConcThresholds]
    /\ last = NoEval
    /\ hist = [evals |-> 0, allowed |-> 0, firstMs |-> 0,
               epochMs |-> 0, epochAllowed |-> 0]
    /\ ConcIdle
    /\ SvcIdle

ConcTick ==
    /\ ticks < MaxConcTicks
    /\ \E d \in ConcSteps : now' = now + d
    /\ ticks' = ticks + 1
    /\ UNCHANGED extVars
    /\ UNCHANGED <<store, primVars, concVars, svcVars>>

\* checkTokenBucket / batchCheckTokenBuckets up to the send: currentTimeMs
\* is read and the EVALSHA leaves the client.
Issue(w) ==
    /\ pending[w] = NoCall
    /\ Len(log) + Cardinality(InFlight) < MaxCalls
    /\ pending' = [pending EXCEPT ![w] = [now_ms |-> now]]
    /\ UNCHANGED extVars
    /\ UNCHANGED <<clockVars, store, primVars, log, svcVars>>

\* The value of the key that the script of worker w's call reads.
ScriptInput(w) == store[PrimKey]

\* The store runs the script of worker w's call and replies.
Exec(w) ==
    /\ pending[w] # NoCall
    /\ LET r == Script(ScriptInput(w), cfg.capacity, cfg.rate, pending[w].now_ms,
                       cfg.th[1], cfg.th[2], now)
       IN  /\ store' = [store EXCEPT ![PrimKey] = r.after]
           /\ log' = Append(log, [w        |-> w,
                                  now_ms   |-> pending[w].now_ms,
                                  before   |-> store[PrimKey],
                                  after    |-> r.after,
                                  allowed  |-> r.allowed,
                                  state    |-> r.state,
                                  pre      |-> r.preTokens,
                                  inflight |-> InFlight \ {w}])
    /\ pending' = [pending EXCEPT ![w] = NoCall]
    /\ UNCHANGED extVars
    /\ UNCHANGED <<clockVars, primVars, svcVars>>

ConcNext == ConcTick \/ \E w \in Workers : Issue(w) \/ Exec(w)

SpecConc == ConcInit /\ [][ConcNext]_vars

\* The evaluations run so far that were allowed.
AllowedRuns == {i \in 1..Len(log) : log[i].allowed}

\* Evaluation i found, after refill, room for exactly one more token below hard_pct.
RoomForOne(i) ==
    /\ ~UsageGeq(cfg.capacity, log[i].pre - ONE, cfg.th[2])
    /\ UsageGeq(cfg.capacity, log[i].pre - 2 * ONE, cfg.th[2])

\* No evaluation from i+1 to j carries a later stamp than evaluation i.
NoLaterStamp(i, j) == \A k \in (i + 1)..j : log[k].now_ms <= log[i].now_ms

\* C5: the store runs the evaluations of one key in a single order, each
\* reading what the previous one left; so of the evaluations that meet a
\* bucket with room for exactly one more token (and bring no later stamp,
\* hence no refill), only the first is allowed, and as long as nothing was
\* refilled the stored tokens are capacity minus one per allowed evaluation.
C5_OneOrderOneToken ==
    /\ \A i \in 1..Len(log) :
          log[i].before = (IF i = 1 THEN NoRecord ELSE log[i - 1].after)
    /\ store[PrimKey] = (IF log = <<>> THEN NoRecord ELSE log[Len(log)].after)
    /\ \A i \in 1..Len(log) : \A j \in (i + 1)..Len(log) :
          (RoomForOne(i) /\ NoLaterStamp(i, j)) => (log[i].allowed /\ ~log[j].allowed)
    /\ (AllowedRuns # {} /\ NoLaterStamp(1, Len(log))) =>
          store[PrimKey].tokens = cfg.capacity - ONE * Cardinality(AllowedRuns)

\* Two calls in flight together with the same stamp met a bucket with room
\* for one token: the first was allowed, the second refused by the guard.
C5_Witness ==
    \E i \in 1..(Len(log) - 1) :
        /\ RoomForOne(i)
        /\ log[i].allowed
        /\ log[i + 1].w \in log[i].inflight
        /\ log[i + 1].now_ms = log[i].now_ms
        /\ ~log[i + 1].allowed
        /\ log[i + 1].state = 2
        /\ log[i].before # NoRecord

----------------------------------------------------------------------------
(* One bucket with hard_threshold_pct = 100 and no soft threshold, over    *)
(* unbounded time.  The script reads the clock only through                *)
(* now_ms - last_refill_ms and through the key's expiry, and a refill      *)
(* stops at capacity; so once the clock has reached LiveHorizon, later     *)
(* than any refill needs, a further advance is the same as moving the      *)
(* refill stamp of the stored record back.  A record whose stamp has       *)
(* reached 0 reads as a full bucket, which is also what an expired key     *)
(* reads as, so the key is kept.                                           *)

\* A time by which every bucket of this section has refilled to capacity.
LiveHorizon == 4000

LiveStep == 500

\* Refill rates of this section: one or two tokens a second.
LiveRates == {1000, 2000}

LiveInit ==
    /\ now = 0
    /\ ticks = 0
    /\ store = [k \in {PrimKey} |-> NoRecord]
    /\ cfg \in [capacity : {c * ONE : c \in {1, 2, 3}},
                rate     : LiveRates,
                th       : {<<100, 100>>}]
    /\ last = NoEval
    /\ hist = [evals |-> 0, allowed |-> 0, firstMs |-> 0,
               epochMs |-> 0, epochAllowed |-> 0]
    /\ ConcIdle
    /\ SvcIdle

\* The record with its refill stamp moved back by d, not below 0.
Aged(rec, d) ==
    IF rec = NoRecord THEN rec
    ELSE Record(rec.tokens, Max(0, rec.last_refill_ms - d), rec.expire_at)

\* Date.now() moves on by LiveStep.
LiveTick ==
    /\ IF now + LiveStep <= LiveHorizon
       THEN now' = now + LiveStep /\ store' = store
       ELSE now' = now /\ store' = [k \in DOMAIN store |-> Aged(store[k], LiveStep)]
    /\ UNCHANGED extVars
    /\ UNCHANGED <<ticks, primVars, concVars, svcVars>>

\* checkTokenBucket; hist.evals only tells one evaluation from the next.
LiveEvaluate ==
    /\ LET r == Script(store[PrimKey], cfg.capacity, cfg.rate, now,
                       cfg.th[1], cfg.th[2], now)
       IN  /\ store' = [store EXCEPT ![PrimKey] = r.after]
           /\ last' = [allowed |-> r.allowed, state |-> r.state]
    /\ hist' = [hist EXCEPT !.evals = 1 - hist.evals]
    /\ UNCHANGED extVars
    /\ UNCHANGED <<clockVars, cfg, concVars, svcVars>>

LiveNext == LiveTick \/ LiveEvaluate

\* Time keeps advancing and the bucket keeps being evaluated.
SpecLive == LiveInit /\ [][LiveNext]_vars /\ WF_vars(LiveTick) /\ WF_vars(LiveEvaluate)

\* C7: with hard_threshold_pct = 100 and no soft threshold, a bucket that
\* has answered state=hard is later, as time advances, answered allowed=1.
C7_RefillRestores ==
    (last # NoEval /\ last.state = 2) ~> (last # NoEval /\ last.allowed)

\* The same for the buckets of capacity two or more, where it holds.
C7_RefillRestoresFromTwo ==
    (last # NoEval /\ last.state = 2 /\ cfg.capacity >= 2 * ONE)
        ~> (last # NoEval /\ last.allowed)

----------------------------------------------------------------------------
(* The override manager (core/override-manager.ts).                        *)
(*                                                                         *)
(* An override document is a record                                        *)
(*   [id, tenant_id, user_id, endpoint, override_type, penalty_pct,        *)
(*    custom_rate, custom_burst, created_at, expires_at]                   *)
(* where penalty_pct is penalty_multiplier * 100 and a field that the      *)
(* document does not have is Absent (strings) or 0 (numbers).              *)

\* An optional string that was not given (undefined); it is falsy.
Absent == ""

\* An optional number that was not given (undefined).
Undefined == -1

\* What a lookup that finds nothing returns (null).
Null == [null |-> TRUE]

\* CACHE_TTL_MS of the override cache.
CACHE_TTL_MS == 30000

\* getCacheKey: `override:${tenant_id}:${user_id || 'none'}:${endpoint || 'none'}`
GetCacheKey(tenant_id, user_id, endpoint) ==
    "override:" \o tenant_id
        \o ":" \o (IF user_id = Absent THEN "none" ELSE user_id)
        \o ":" \o (IF endpoint = Absent THEN "none" ELSE endpoint)

\* cache.get(key) found nothing (undefined).
Miss == [miss |-> TRUE]

\* cache.get(key) of a cache that keeps its entries twice as long.
CacheGetKeptTwiceAsLong(c, key, t) ==
    IF key \in DOMAIN c /\ t - c[key].at <= 2 * CACHE_TTL_MS THEN c[key] ELSE Miss

\* cache.get(key): the entry, unless there is none or it is older than the ttl.
CacheGet(c, key, t) ==
    IF key \in DOMAIN c /\ t - c[key].at <= CACHE_TTL_MS THEN c[key] ELSE Miss

\* cache.set(key, { override })
CacheSet(c, key, override, t) ==
    [k \in DOMAIN c \cup {key} |->
        IF k = key THEN [override |-> override, at |-> t] ELSE c[k]]

\* A slip: only the key of the override's own fields is deleted.
InvalidatedKeysOwnOnly(tenant_id, user_id, endpoint) ==
    { GetCacheKey(tenant_id, user_id, endpoint) }

\* invalidateCache: the four keys it deletes.
InvalidatedKeys(tenant_id, user_id, endpoint) ==
    { GetCacheKey(tenant_id, user_id, endpoint),
      GetCacheKey(tenant_id, user_id, Absent),
      GetCacheKey(tenant_id, Absent, endpoint),
      GetCacheKey(tenant_id, Absent, Absent) }

\* cache.delete of a set of keys.
CacheDelete(c, keys) == [k \in DOMAIN c \ keys |-> c[k]]

\* buildOverrideQuery: does the document satisfy baseQuery and one of the
\* $or conditions at time t?
Matches(o, tenant_id, user_id, endpoint, t) ==
    /\ o.tenant_id = tenant_id
    /\ o.expires_at > t
    /\ \/ user_id # Absent /\ endpoint # Absent
            /\ o.user_id = user_id /\ o.endpoint = endpoint
       \/ user_id # Absent /\ o.user_id = user_id /\ o.endpoint = Absent
       \/ endpoint # Absent /\ o.endpoint = endpoint /\ o.user_id = Absent
       \/ o.user_id = Absent /\ o.endpoint = Absent

\* The documents a find(...).sort({created_at: -1}) can put first among S:
\* the newest ones (the order of equal created_at is the store's choice).
Newest(S) == {o \in S : \A p \in S : p.created_at <= o.created_at}

\* getPriorityOverride with the endpoint-only shape tried before the
\* user-only shape.
GetPriorityOverrideEndpointFirst(found, user_id, endpoint) ==
    LET p1 == IF user_id # Absent /\ endpoint # Absent
              THEN {o \in found : o.user_id = user_id /\ o.endpoint = endpoint}
              ELSE {}
        p2 == IF user_id # Absent
              THEN {o \in found : o.user_id = user_id /\ o.endpoint = Absent}
              ELSE {}
        p3 == IF endpoint # Absent
              THEN {o \in found : o.endpoint = endpoint /\ o.user_id = Absent}
              ELSE {}
        p4 == {o \in found : o.user_id = Absent /\ o.endpoint = Absent}
    IN  IF p1 # {} THEN Newest(p1)
        ELSE IF p3 # {} THEN Newest(p3)
        ELSE IF p2 # {} THEN Newest(p2)
        ELSE IF p4 # {} THEN Newest(p4)
        ELSE {Null}

\* getPriorityOverride: the results it can return for the documents found.
GetPriorityOverride(found, user_id, endpoint) ==
    LET p1 == IF user_id # Absent /\ endpoint # Absent
              THEN {o \in found : o.user_id = user_id /\ o.endpoint = endpoint}
              ELSE {}
        p2 == IF user_id # Absent
              THEN {o \in found : o.user_id = user_id /\ o.endpoint = Absent}
              ELSE {}
        p3 == IF endpoint # Absent
              THEN {o \in found : o.endpoint = endpoint /\ o.user_id = Absent}
              ELSE {}
        p4 == {o \in found : o.user_id = Absent /\ o.endpoint = Absent}
    IN  IF p1 # {} THEN Newest(p1)
        ELSE IF p2 # {} THEN Newest(p2)
        ELSE IF p3 # {} THEN Newest(p3)
        ELSE IF p4 # {} THEN Newest(p4)
        ELSE {Null}

\* getActiveOverride: the outcomes of one call against collection docs and
\* cache c at time t: what it returns, the cache it leaves, and whether the
\* answer came from the cache.
GetActiveOverrideOutcomes(docs, c, tenant_id, user_id, endpoint, t) ==
    LET cacheKey == GetCacheKey(tenant_id, user_id, endpoint)
        cached == CacheGet(c, cacheKey, t)
        found == {o \in docs : Matches(o, tenant_id, user_id, endpoint, t)}
    IN  IF cached # Miss
        THEN {[override |-> cached.override, cache |-> c, cached |-> TRUE,
               filledAt |-> cached.at]}
        ELSE {[override |-> o, cache |-> CacheSet(c, cacheKey, o, t),
               cached |-> FALSE, filledAt |-> t] :
                    o \in GetPriorityOverride(found, user_id, endpoint)}

\* A policy the tenant has not configured (undefined).
NoPolicy == [unset |-> TRUE]

\* A bucket policy; refill_rate_per_sec is in milli-tokens per second and is
\* 0 when the policy does not give it.
BucketPolicy(rpm, rps, burst_capacity, refill_rate_per_sec) ==
    [rpm |-> rpm, rps |-> rps, burst_capacity |-> burst_capacity,
     refill_rate_per_sec |-> refill_rate_per_sec]

\* Math.floor(value * multiplier), the multiplier given in percent.
FloorScaled(value, pct) == (value * pct) \div 100

\* The penalty branch of applyOverride on one policy.
Penalised(policy, pct) ==
    BucketPolicy(FloorScaled(policy.rpm, pct), FloorScaled(policy.rps, pct),
                 FloorScaled(policy.burst_capacity, pct),
                 IF policy.refill_rate_per_sec # 0
                 THEN (policy.refill_rate_per_sec * pct) \div 100 ELSE 0)

\* applyOverride
ApplyOverride(override, tenantPolicy, userPolicy) ==
    IF override.override_type = "temporary_ban"
    THEN [tenantPolicy |-> tenantPolicy, userPolicy |-> userPolicy, banned |-> TRUE]
    ELSE IF override.override_type = "penalty_multiplier" /\ override.penalty_pct # 0
    THEN [tenantPolicy |-> Penalised(tenantPolicy, override.penalty_pct),
          userPolicy |-> IF userPolicy # NoPolicy
                         THEN Penalised(userPolicy, override.penalty_pct)
                         ELSE NoPolicy,
          banned |-> FALSE]
    ELSE IF override.override_type = "custom_limit"
            /\ override.custom_rate # 0 /\ override.custom_burst # 0
    THEN LET customPolicy ==
                BucketPolicy(override.custom_rate, override.custom_rate \div 60,
                             override.custom_burst,
                             (override.custom_rate * 1000) \div 60)
         IN  [tenantPolicy |-> customPolicy, userPolicy |-> customPolicy,
              banned |-> FALSE]
    ELSE [tenantPolicy |-> tenantPolicy, userPolicy |-> userPolicy, banned |-> FALSE]

----------------------------------------------------------------------------
(* The hierarchical decisioner (ThrottleDecisioner) and the bucket engine  *)
(* (core/token-bucket.ts).  Token counts and capacities are whole tokens   *)
(* here, as the policies give them and as the store replies.               *)

\* normalizeEndpoint, for the endpoints of the model: the query string and
\* one trailing slash are removed; the characters kept are letters, digits,
\* '-', '_' and '/'.
NormalizeEndpoint(endpoint) ==
    CASE endpoint = "/a/" -> "/a"
      [] endpoint = "/a?x" -> "/a"
      [] endpoint = "/" -> ""
      [] OTHER -> endpoint

\* The bucket keys of the six scopes.
UserKey(tenant_id, user_id) ==
    "{tenant:" \o tenant_id \o "}:user:" \o user_id \o ":bucket"

UserEndpointKey(tenant_id, user_id, endpoint) ==
    "{tenant:" \o tenant_id \o "}:user:" \o user_id
        \o ":endpoint:" \o NormalizeEndpoint(endpoint) \o ":bucket"

\* The tenant_global key without the tenant in it.
TenantKeyShared(tenant_id) == "{tenant}:bucket"

TenantKey(tenant_id) == "{tenant:" \o tenant_id \o "}:bucket"

TenantEndpointKey(tenant_id, endpoint) ==
    "{tenant:" \o tenant_id \o "}:endpoint:" \o NormalizeEndpoint(endpoint) \o ":bucket"

GlobalEndpointKey(endpoint) ==
    "global:endpoint:" \o NormalizeEndpoint(endpoint) \o ":bucket"

GlobalKey == "global:bucket"

\* getEndpointPolicy that looks the endpoint up only as the request gives it.
GetEndpointPolicyAsGiven(endpoints, endpoint) ==
    IF endpoint \in DOMAIN endpoints THEN endpoints[endpoint] ELSE NoPolicy

\* getEndpointPolicy: the normalized endpoint first, then the endpoint as given.
GetEndpointPolicy(endpoints, endpoint) ==
    IF NormalizeEndpoint(endpoint) \in DOMAIN endpoints
    THEN endpoints[NormalizeEndpoint(endpoint)]
    ELSE IF endpoint \in DOMAIN endpoints THEN endpoints[endpoint]
    ELSE NoPolicy

\* "throttleConfig.soft_threshold_pct ?? hard_threshold_pct" with half of
\* the hard threshold as the default.
SoftThresholdHalf(throttle_config) ==
    IF throttle_config.soft_threshold_pct = Undefined
    THEN throttle_config.hard_threshold_pct \div 2
    ELSE throttle_config.soft_threshold_pct

\* throttleConfig.soft_threshold_pct ?? hard_threshold_pct
SoftThreshold(throttle_config) ==
    IF throttle_config.soft_threshold_pct = Undefined
    THEN throttle_config.hard_threshold_pct
    ELSE throttle_config.soft_threshold_pct

\* The fixed thresholds of the global scopes.
GlobalSoftPct == 100

GlobalHardPct == 110

Check(scope, key, policy, softPct, hardPct) ==
    [scope |-> scope, key |-> key, policy |-> policy,
     softPct |-> softPct, hardPct |-> hardPct]

\* Step 3 of performHierarchicalCheck: the check list of a request.
BuildChecks(tp, gp, tenant_id, user_id, endpoint) ==
    LET soft == SoftThreshold(tp.throttle_config)
        hard == tp.throttle_config.hard_threshold_pct
        uep == GetEndpointPolicy(tp.user_endpoints, endpoint)
        tep == GetEndpointPolicy(tp.tenant_endpoints, endpoint)
        gep == GetEndpointPolicy(gp.endpoints, endpoint)
    IN  (IF tp.user # NoPolicy
         THEN <<Check("user_global", UserKey(tenant_id, user_id), tp.user, soft, hard)>>
         ELSE << >>)
        \o (IF uep # NoPolicy
            THEN <<Check("user_endpoint", UserEndpointKey(tenant_id, user_id, endpoint),
                         uep, soft, hard)>>
            ELSE << >>)
        \o <<Check("tenant_global", TenantKey(tenant_id), tp.tenant, soft, hard)>>
        \o (IF tep # NoPolicy
            THEN <<Check("tenant_endpoint", TenantEndpointKey(tenant_id, endpoint),
                         tep, soft, hard)>>
            ELSE << >>)
        \o (IF gep # NoPolicy
            THEN <<Check("global_endpoint", GlobalEndpointKey(endpoint), gep,
                         GlobalSoftPct, GlobalHardPct)>>
            ELSE << >>)
        \o <<Check("global_system", GlobalKey, gp.global, GlobalSoftPct, GlobalHardPct)>>

\* policy.refill_rate_per_sec || policy.rpm / 60, in milli-tokens per second.
RefillRate(policy) ==
    IF policy.refill_rate_per_sec # 0
    THEN policy.refill_rate_per_sec
    ELSE (policy.rpm * 1000) \div 60

\* mapStateToEnum
MapStateToEnum(state) ==
    CASE state = 0 -> "normal"
      [] state = 1 -> "soft"
      [] state = 2 -> "hard"

\* The store's value of a key.
Read(st, key) == IF key \in DOMAIN st THEN st[key] ELSE NoRecord

\* The store with the key's value replaced.
Written(st, key, rec) ==
    [k \in DOMAIN st \cup {key} |-> IF k = key THEN rec ELSE st[k]]

\* The result record of a check and the store it leaves, from the script's
\* reply r.
CheckResult(check, r, st) ==
    [result |-> [scope |-> check.scope, allowed |-> r.allowed,
                 state |-> MapStateToEnum(r.state), tokens |-> r.tokens,
                 usage_pct |-> r.usage_pct, limit |-> check.policy.rpm,
                 policy |-> check.policy, hardPct |-> check.hardPct],
     store |-> IF r.after = Read(st, check.key) THEN st
               ELSE Written(st, check.key, r.after)]

\* executeSingleCheck / one entry of executeTenantBatchChecks. The script's
\* reply is bound to r, so that it is evaluated once.
ExecuteCheck(check, st, t) ==
    CHOOSE result \in
        { CheckResult(check, r, st) :
            r \in {Script(Read(st, check.key), check.policy.burst_capacity * ONE,
                          RefillRate(check.policy), t, check.softPct, check.hardPct,
                          t)} } : TRUE

\* The results of a batch: the first check's result before the others'.
Joined(result, rest) ==
    [results |-> <<result>> \o rest.results, store |-> rest.store]

\* executeBatchChecks: the checks run in list order (the tenant-scoped ones
\* in one pipeline, then the global ones), each on the store the previous
\* one left.
RECURSIVE ExecuteBatchChecks(_, _, _)
RestOfBatch(first, checks, t) ==
    Joined(first.result, ExecuteBatchChecks(checks, first.store, t))

ExecuteBatchChecks(checks, st, t) ==
    IF checks = << >> THEN [results |-> << >>, store |-> st]
    ELSE CHOOSE ran \in
            { RestOfBatch(first, Tail(checks), t) :
                first \in {ExecuteCheck(Head(checks), st, t)} } : TRUE

StatePriority(state) ==
    CASE state = "hard" -> 3
      [] state = "soft" -> 2
      [] state = "normal" -> 1

\* The reduce that lets a later result of the same priority replace the worst.
RECURSIVE ReduceLastWins(_, _)
ReduceLastWins(worst, results) ==
    IF results = << >> THEN worst
    ELSE ReduceLastWins(IF StatePriority(Head(results).state) >= StatePriority(worst.state)
                        THEN Head(results) ELSE worst,
                        Tail(results))

\* aggregateResults: reduce keeping the first result of the highest priority.
RECURSIVE Reduce(_, _)
Reduce(worst, results) ==
    IF results = << >> THEN worst
    ELSE Reduce(IF StatePriority(Head(results).state) > StatePriority(worst.state)
                THEN Head(results) ELSE worst,
                Tail(results))

AggregateResults(results) == Reduce(Head(results), Tail(results))

\* calculateReset: Math.ceil(calculateResetTime(tokens, capacity, rate) / 1000)
CalculateReset(tokens, capacity, rate, t) ==
    IF tokens >= capacity THEN CeilDiv(t, 1000)
    ELSE CeilDiv(t * rate + (capacity - tokens) * ONE, 1000 * rate)

\* calculateRetryAfter
CalculateRetryAfter(tokens, capacity, rate, hardPct) ==
    IF (capacity - tokens) * 100 <= capacity * hardPct THEN 0
    ELSE CeilDiv(((capacity - tokens) * 100 - capacity * hardPct) * 10, rate)

\* The immediate rejection of a banned request.
BanDecision(override, st, t) ==
    [allowed |-> FALSE, state |-> "hard", scope |-> "tenant_global",
     limit |-> 0, remaining |-> 0,
     reset |-> CeilDiv(override.expires_at, 1000),
     retry_after |-> CeilDiv(override.expires_at - t, 1000),
     results |-> << >>, store |-> st]

\* Steps 6 to 8 of performHierarchicalCheck: the decision for the worst result.
DecisionOf(worst, ran, t) ==
    [allowed |-> worst.state # "hard", state |-> worst.state,
     scope |-> worst.scope, limit |-> worst.limit,
     remaining |-> worst.tokens,
     reset |-> CalculateReset(worst.tokens, worst.limit, RefillRate(worst.policy), t),
     retry_after |-> IF worst.state = "hard"
                     THEN CalculateRetryAfter(worst.tokens, worst.policy.burst_capacity,
                                              RefillRate(worst.policy), worst.hardPct)
                     ELSE Undefined,
     results |-> ran.results, store |-> ran.store]

\* Step 5: the worst result of the batch decides.
Aggregated(ran, t) ==
    CHOOSE d \in { DecisionOf(worst, ran, t) :
                    worst \in {AggregateResults(ran.results)} } : TRUE

\* The tenant policy with the tenant and user policies the override gives.
Overridden(tp0, applied) ==
    [tp0 EXCEPT !.tenant = applied.tenantPolicy,
                !.user = IF applied.userPolicy # NoPolicy
                         THEN applied.userPolicy ELSE tp0.user]

\* Steps 3 to 8 under the effective tenant policy tp.
RunChecks(tp, gp, tenant_id, user_id, endpoint, st, t) ==
    CHOOSE d \in
        { Aggregated(ran, t) :
            ran \in {ExecuteBatchChecks(BuildChecks(tp, gp, tenant_id, user_id,
                                                    endpoint), st, t)} } : TRUE

\* Step 2 once the override is applied.
Applied(applied, tp0, gp, override, tenant_id, user_id, endpoint, st, t) ==
    IF applied.banned THEN BanDecision(override, st, t)
    ELSE RunChecks(Overridden(tp0, applied), gp, tenant_id, user_id, endpoint, st, t)

\* What performHierarchicalCheck does with the override the lookup returned:
\* the decision, the results of the checks and the store it leaves.
PerformCheck(tp0, gp, override, tenant_id, user_id, endpoint, st, t) ==
    IF override = Null
    THEN RunChecks(tp0, gp, tenant_id, user_id, endpoint, st, t)
    ELSE Applied(ApplyOverride(override, tp0.tenant, tp0.user), tp0, gp, override,
                 tenant_id, user_id, endpoint, st, t)

\* The non-expired overrides of a tenant in the collection at time t.
ActiveOf(docs, tenant_id, t) ==
    {o \in docs : o.tenant_id = tenant_id /\ o.expires_at > t}

\* How many checkRateLimit calls a run may hold.
MaxChecks == 3

\* The decision with the request it answers and what the request saw.
Observed(d, lk, tenant_id, user_id, endpoint) ==
    [tenant_id |-> tenant_id, user_id |-> user_id, endpoint |-> endpoint,
     at |-> now, allowed |-> d.allowed, state |-> d.state, scope |-> d.scope,
     limit |-> d.limit, remaining |-> d.remaining, reset |-> d.reset,
     retry_after |-> d.retry_after, results |-> d.results, before |-> store,
     override |-> lk.override, cached |-> lk.cached,
     active |-> ActiveOf(overrides, tenant_id, now)]

\* The effects of a check that looked the override up with outcome lk and
\* decided d.
Decided(d, lk, tenant_id, user_id, endpoint) ==
    /\ store' = d.store
    /\ cache' = lk.cache
    /\ decision' = Observed(d, lk, tenant_id, user_id, endpoint)

\* checkRateLimit with the store answering and the circuit closed: the
\* override lookup, then performHierarchicalCheck on its result.
CheckRateLimit(tenant_id, user_id, endpoint) ==
    /\ policies # NoPolicies
    /\ tenant_id \in DOMAIN policies.tenants
    /\ reqs.checks < MaxChecks
    /\ \E lk \in GetActiveOverrideOutcomes(overrides, cache, tenant_id, user_id,
                                           endpoint, now) :
         Decided(PerformCheck(policies.tenants[tenant_id], policies.global,
                              lk.override, tenant_id, user_id, endpoint, store, now),
                 lk, tenant_id, user_id, endpoint)
    /\ reqs' = [reqs EXCEPT !.checks = @ + 1]
    /\ UNCHANGED extVars
    /\ UNCHANGED <<clockVars, primVars, concVars, policies, overrides, lookup>>

----------------------------------------------------------------------------
(* The decisioner with two tenants and no overrides *)

Tenants == {"A", "B"}

Users == {"u1"}

\* One endpoint that has endpoint policies (given with a trailing slash) and
\* one that has none.
Endpoints == {"/a/", "/b"}

\* How many times the clock may advance in a run of the decisioner.
MaxDecTicks == 2

DecSteps == {1000}

\* A policy of 60 requests per minute with the given burst capacity and the
\* refill rate left to the default rpm / 60.
Burst(burst_capacity) == BucketPolicy(60, 1, burst_capacity, 0)

NoEndpoints == << >>

\* Tenant A has no soft threshold; it has a tenant policy, a tenant policy
\* for endpoint /a and, optionally, user policies.
PoliciesOfA ==
    { [user |-> up[1], user_endpoints |-> up[2], tenant |-> Burst(3),
       tenant_endpoints |-> "/a" :> Burst(2),
       throttle_config |-> [soft_threshold_pct |-> Undefined,
                            hard_threshold_pct |-> hard]] :
        up \in {<<NoPolicy, NoEndpoints>>, <<Burst(2), "/a" :> Burst(2)>>},
        hard \in {100, 110} }

\* Tenant B warns at half of its bucket.
PoliciesOfB ==
    { [user |-> NoPolicy, user_endpoints |-> NoEndpoints, tenant |-> Burst(3),
       tenant_endpoints |-> NoEndpoints,
       throttle_config |-> [soft_threshold_pct |-> 50, hard_threshold_pct |-> 100]] }

GlobalPolicies ==
    { [global |-> Burst(c), endpoints |-> "/a" :> Burst(2)] : c \in {3, 4} }

DecInit ==
    /\ now = 0
    /\ ticks = 0
    /\ store = << >>
    /\ cfg = [none |-> TRUE]
    /\ last = NoEval
    /\ hist = [evals |-> 0, allowed |-> 0, firstMs |-> 0, epochMs |-> 0,
               epochAllowed |-> 0]
    /\ ConcIdle
    /\ \E a \in PoliciesOfA, b \in PoliciesOfB, g \in GlobalPolicies :
            policies = [tenants |-> ("A" :> a) @@ ("B" :> b), global |-> g]
    /\ overrides = {}
    /\ cache = << >>
    /\ decision = NoDecision
    /\ lookup = NoLookup
    /\ ExtIdle
    /\ reqs = [checks |-> 0, lookups |-> 0, creates |-> 0, deletes |-> 0]

DecTick ==
    /\ ticks < MaxDecTicks
    /\ \E d \in DecSteps : now' = now + d
    /\ ticks' = ticks + 1
    /\ UNCHANGED extVars
    /\ UNCHANGED <<store, primVars, concVars, svcVars>>

DecCheck == \E t \in Tenants, u \in Users, e \in Endpoints : CheckRateLimit(t, u, e)

DecNext == DecTick \/ DecCheck

SpecDec == DecInit /\ [][DecNext]_vars

----------------------------------------------------------------------------
(* Claims about the decisioner *)

TenantScopes == {"user_global", "user_endpoint", "tenant_global", "tenant_endpoint"}

GlobalScopes == {"global_endpoint", "global_system"}

\* The decision's tenant has no soft_threshold_pct in its throttle_config.
NoSoftConfigured ==
    /\ decision # NoDecision
    /\ policies.tenants[decision.tenant_id].throttle_config.soft_threshold_pct = Undefined

OutcomeOn(st, tenant_id, user_id, endpoint) ==
    PerformCheck(policies.tenants[tenant_id], policies.global, Null,
                 tenant_id, user_id, endpoint, st, now)

SameDecision(d1, d2) ==
    /\ d1.allowed = d2.allowed
    /\ d1.state = d2.state
    /\ d1.scope = d2.scope
    /\ d1.remaining = d2.remaining

IsTenantScoped(result) == result.scope \in TenantScopes

SameTenantResults(d1, d2) ==
    SelectSeq(d1.results, IsTenantScoped) = SelectSeq(d2.results, IsTenantScoped)

\* Two decisions differ only where a global scope decides one of them.
DifferOnlyByGlobal(d1, d2) ==
    SameDecision(d1, d2) \/ d1.scope \in GlobalScopes \/ d2.scope \in GlobalScopes

\* The bucket keys that requests of the tenant address under the tenant.
TenantOwnKeys(tenant_id) ==
    {TenantKey(tenant_id)}
        \cup {UserKey(tenant_id, u) : u \in Users}
        \cup {TenantEndpointKey(tenant_id, e) : e \in Endpoints}
        \cup {UserEndpointKey(tenant_id, u, e) : u \in Users, e \in Endpoints}

OtherTenants == IF decision = NoDecision THEN {} ELSE Tenants \ {decision.tenant_id}

\* C8 as the specification states it: the decision and remaining of another
\* tenant's request are the same whether or not the last call happened.
C8_SpecIndependent ==
    \A t \in OtherTenants, u \in Users, e \in Endpoints :
        SameDecision(OutcomeOn(decision.before, t, u, e), OutcomeOn(store, t, u, e))

\* C8: a checkRateLimit call for tenant A changes no bucket keyed under
\* another tenant B, so the results of B's tenant-scoped checks are the same
\* whether or not A's call happened; B's decision and remaining can differ
\* only when a global scope decides one of the two.
C8_TenantBucketsIndependent ==
    \A t \in OtherTenants :
        /\ \A k \in TenantOwnKeys(t) : Read(decision.before, k) = Read(store, k)
        /\ \A u \in Users, e \in Endpoints :
            /\ SameTenantResults(OutcomeOn(decision.before, t, u, e),
                                 OutcomeOn(store, t, u, e))
            /\ DifferOnlyByGlobal(OutcomeOn(decision.before, t, u, e),
                                  OutcomeOn(store, t, u, e))

\* The last call consumed from its tenant's bucket while another tenant's
\* bucket holds a record of earlier calls.
C8_Witness ==
    /\ decision # NoDecision
    /\ Read(decision.before, TenantKey(decision.tenant_id))
            # Read(store, TenantKey(decision.tenant_id))
    /\ \E t \in OtherTenants : Read(store, TenantKey(t)) # NoRecord

----------------------------------------------------------------------------
(* The override manager and the decisioner with one tenant, while           *)
(* overrides are created, deleted and expire.                               *)

\* How many calls (checks, lookups, creations, deletions) a run may hold.
MaxOps == 3

\* How many times the clock may advance in such a run.
MaxOvTicks == 2

\* The clock advances by 25 s: less than the cache ttl, more than the
\* lifetime of an override below.
OvSteps == {25000}

\* How long a created override lasts, ms.
OvDurations == {20000}

OvEndpoints == {"/a"}

OvPolicies ==
    [tenants |-> "A" :> [user |-> NoPolicy, user_endpoints |-> NoEndpoints,
                         tenant |-> Burst(3), tenant_endpoints |-> NoEndpoints,
                         throttle_config |-> [soft_threshold_pct |-> Undefined,
                                              hard_threshold_pct |-> 100]],
     global |-> [global |-> Burst(5), endpoints |-> NoEndpoints]]

\* The three override types with their parameters: a ban, a penalty of 0.5
\* and a custom limit of 60 per minute with a burst of 2.
OverrideKinds ==
    { [override_type |-> "temporary_ban", penalty_pct |-> 0,
       custom_rate |-> 0, custom_burst |-> 0],
      [override_type |-> "penalty_multiplier", penalty_pct |-> 50,
       custom_rate |-> 0, custom_burst |-> 0],
      [override_type |-> "custom_limit", penalty_pct |-> 0,
       custom_rate |-> 60, custom_burst |-> 2] }

OvInit ==
    /\ now = 0
    /\ ticks = 0
    /\ store = << >>
    /\ cfg = [none |-> TRUE]
    /\ last = NoEval
    /\ hist = [evals |-> 0, allowed |-> 0, firstMs |-> 0, epochMs |-> 0,
               epochAllowed |-> 0]
    /\ ConcIdle
    /\ policies = OvPolicies
    /\ overrides = {}
    /\ cache = << >>
    /\ decision = NoDecision
    /\ lookup = NoLookup
    /\ ExtIdle
    /\ reqs = [checks |-> 0, lookups |-> 0, creates |-> 0, deletes |-> 0]

OpsLeft == reqs.checks + reqs.lookups + reqs.creates + reqs.deletes < MaxOps

OvTick ==
    /\ ticks < MaxOvTicks
    /\ \E d \in OvSteps : now' = now + d
    /\ ticks' = ticks + 1
    /\ UNCHANGED extVars
    /\ UNCHANGED <<store, primVars, concVars, svcVars>>

\* The document TenantOverrideModel.create stores.
NewOverride(id, tenant_id, user_id, endpoint, kind, expires_at) ==
    [id |-> id, tenant_id |-> tenant_id, user_id |-> user_id, endpoint |-> endpoint,
     override_type |-> kind.override_type, penalty_pct |-> kind.penalty_pct,
     custom_rate |-> kind.custom_rate, custom_burst |-> kind.custom_burst,
     created_at |-> now, expires_at |-> expires_at]

\* createOverride
CreateOverride(tenant_id, user_id, endpoint, kind, duration) ==
    /\ OpsLeft
    /\ overrides' = overrides \cup
            {NewOverride(reqs.creates + 1, tenant_id, user_id, endpoint, kind,
                         now + duration)}
    /\ cache' = CacheDelete(cache, InvalidatedKeys(tenant_id, user_id, endpoint))
    /\ reqs' = [reqs EXCEPT !.creates = @ + 1]
    /\ UNCHANGED extVars
    /\ UNCHANGED <<clockVars, store, primVars, concVars, policies, decision, lookup>>

\* deleteOverride of a document that exists: what it does to the collection
\* and to the cache.
Deleted(o) ==
    /\ OpsLeft
    /\ o \in overrides
    /\ overrides' = overrides \ {o}
    /\ cache' = CacheDelete(cache, InvalidatedKeys(o.tenant_id, o.user_id, o.endpoint))
    /\ reqs' = [reqs EXCEPT !.deletes = @ + 1]
    /\ UNCHANGED <<clockVars, store, primVars, concVars, policies, decision, lookup>>

\* deleteOverride
DeleteOverride(o) ==
    /\ Deleted(o)
    /\ UNCHANGED extVars

\* The document store's TTL index removes the expired overrides.
TtlSweep ==
    /\ \E o \in overrides : o.expires_at <= now
    /\ overrides' = {o \in overrides : o.expires_at > now}
    /\ UNCHANGED extVars
    /\ UNCHANGED <<clockVars, store, primVars, concVars, policies, cache, decision,
                   lookup, reqs>>

\* What a direct getActiveOverride call returned, with what it saw.
Looked(lk, tenant_id, user_id, endpoint) ==
    [tenant_id |-> tenant_id, user_id |-> user_id, endpoint |-> endpoint,
     at |-> now, result |-> lk.override, cached |-> lk.cached,
     filledAt |-> lk.filledAt, active |-> ActiveOf(overrides, tenant_id, now)]

\* getActiveOverride called on its own.
GetActiveOverride(tenant_id, user_id, endpoint) ==
    /\ OpsLeft
    /\ \E lk \in GetActiveOverrideOutcomes(overrides, cache, tenant_id, user_id,
                                           endpoint, now) :
            /\ cache' = lk.cache
            /\ lookup' = Looked(lk, tenant_id, user_id, endpoint)
    /\ reqs' = [reqs EXCEPT !.lookups = @ + 1]
    /\ UNCHANGED extVars
    /\ UNCHANGED <<clockVars, store, primVars, concVars, policies, overrides, decision>>

\* The lookups of the override manager: overrides of every shape come and
\* go while getActiveOverride is called with and without user and endpoint.
\* The type of an override plays no part in a lookup.
LookupKinds == {k \in OverrideKinds : k.override_type = "penalty_multiplier"}

OvCreate ==
    \E u \in Users \cup {Absent}, e \in OvEndpoints \cup {Absent},
       kind \in LookupKinds, d \in OvDurations :
        CreateOverride("A", u, e, kind, d)

OvDelete == \E o \in overrides : DeleteOverride(o)

OvLookup ==
    \E u \in Users \cup {Absent}, e \in OvEndpoints \cup {Absent} :
        GetActiveOverride("A", u, e)

OvNext == OvTick \/ OvCreate \/ OvDelete \/ TtlSweep \/ OvLookup

SpecOv == OvInit /\ [][OvNext]_vars

\* The decisioner while overrides of every type and shape come and go.
BanCheck ==
    /\ OpsLeft
    /\ \E u \in Users, e \in OvEndpoints : CheckRateLimit("A", u, e)

BanCreate ==
    \E u \in Users \cup {Absent}, e \in OvEndpoints \cup {Absent},
       kind \in OverrideKinds, d \in OvDurations :
        CreateOverride("A", u, e, kind, d)

BanNext == OvTick \/ BanCheck \/ BanCreate \/ OvDelete \/ TtlSweep

SpecBan == OvInit /\ [][BanNext]_vars

----------------------------------------------------------------------------
(* Claims about overrides *)

\* The precedence of an override for a lookup with the given user and
\* endpoint: 1 user and endpoint both equal, 2 user equal and no endpoint,
\* 3 endpoint equal and no user, 4 neither set, 5 no match.
Rank(o, user_id, endpoint) ==
    IF user_id # Absent /\ endpoint # Absent
        /\ o.user_id = user_id /\ o.endpoint = endpoint THEN 1
    ELSE IF user_id # Absent /\ o.user_id = user_id /\ o.endpoint = Absent THEN 2
    ELSE IF endpoint # Absent /\ o.endpoint = endpoint /\ o.user_id = Absent THEN 3
    ELSE IF o.user_id = Absent /\ o.endpoint = Absent THEN 4
    ELSE 5

\* The result is the choice by precedence among the active overrides: none
\* when none matches, otherwise a match that no other match precedes.
RightChoice(result, active, user_id, endpoint) ==
    IF \A o \in active : Rank(o, user_id, endpoint) = 5
    THEN result = Null
    ELSE /\ result \in active
         /\ \A o \in active : Rank(result, user_id, endpoint) <= Rank(o, user_id, endpoint)

TenantBans(docs) ==
    {o \in docs : /\ o.override_type = "temporary_ban"
                  /\ o.user_id = Absent
                  /\ o.endpoint = Absent}

\* C10: a checkRateLimit made while the tenant's only active overrides are
\* tenant-wide temporary bans is rejected with state hard, scope
\* tenant_global and retry_after = ceil((expires_at - now) / 1 s), whatever
\* was looked up before the ban was created.
C10_BanIsImmediate ==
    (/\ decision # NoDecision
     /\ decision.active # {}
     /\ decision.active = TenantBans(decision.active))
        => /\ ~decision.allowed
           /\ decision.state = "hard"
           /\ decision.scope = "tenant_global"
           /\ \E b \in decision.active :
                decision.retry_after = CeilDiv(b.expires_at - decision.at, 1000)

----------------------------------------------------------------------------
(* applyOverride as a function of its arguments (SpecApply) *)

\* The limits the policies under test carry: 1 is the smallest limit a
\* policy can state, and the one a multiplier below 1 takes under 1.
ApplyLimits == {1, 3, 60}

\* The penalty multipliers under test, in percent: 0.01, 0.5 and 1.
ApplyPercents == {1, 50, 100}

ApplyPolicies ==
    { BucketPolicy(rpm, 1, burst_capacity, refill_rate_per_sec) :
        rpm \in ApplyLimits, burst_capacity \in ApplyLimits,
        refill_rate_per_sec \in {0, 1000} }

ApplyOverrides ==
    { NewOverride(1, "A", Absent, Absent, kind, 0) :
        kind \in OverrideKinds
                 \cup { [override_type |-> "penalty_multiplier", penalty_pct |-> pct,
                         custom_rate |-> 0, custom_burst |-> 0] :
                        pct \in ApplyPercents } }

ApplyInit ==
    /\ now = 0
    /\ ticks = 0
    /\ store = << >>
    /\ cfg = NoCall
    /\ last = NoEval
    /\ hist = NoCall
    /\ ConcIdle
    /\ SvcIdle

\* One call of applyOverride, with what it was given and what it returned;
\* the function keeps no state, so a run is one call.
Apply(override, tenantPolicy, userPolicy) ==
    /\ applyCall = NoApplied
    /\ applyCall' = [override |-> override, tenantPolicy |-> tenantPolicy,
                   userPolicy |-> userPolicy,
                   result |-> ApplyOverride(override, tenantPolicy, userPolicy)]
    /\ UNCHANGED <<clockVars, store, primVars, concVars, svcVars, env, scriptsLoaded,
                   breaker, fallback, calls, deletedAt, auxVars>>

ApplyNext ==
    \E override \in ApplyOverrides, tenantPolicy \in ApplyPolicies,
       userPolicy \in ApplyPolicies \cup {NoPolicy} :
        Apply(override, tenantPolicy, userPolicy)

SpecApply == ApplyInit /\ [][ApplyNext]_vars

\* The limits of a policy are all at least 1.
NoZeroLimit(policy) ==
    policy.rpm >= 1 /\ policy.rps >= 1 /\ policy.burst_capacity >= 1

\* C11: a penalty multiplier in (0, 1] never produces a zero limit: every
\* scaled rpm, rps and burst_capacity of the tenant policy, and of the user
\* policy when there is one, is at least 1.
C11_PenaltyNeverZero ==
    (/\ applyCall # NoApplied
     /\ applyCall.override.override_type = "penalty_multiplier"
     /\ applyCall.override.penalty_pct \in 1..100)
        => /\ NoZeroLimit(applyCall.result.tenantPolicy)
           /\ applyCall.result.userPolicy # NoPolicy
                => NoZeroLimit(applyCall.result.userPolicy)

----------------------------------------------------------------------------
(* The circuit breaker *)

\* The failure counter is only ever compared with failure_threshold; the
\* model stops counting at MaxFailures, above every threshold under test.
MaxFailures == 4

\* transitionTo at time t.
TransitionTo(b, new_state, t) ==
    IF b.state = new_state THEN b
    ELSE IF new_state = "OPEN"
    THEN [b EXCEPT !.state = new_state,
                   !.next_attempt_time = t + b.config.timeout_ms]
    ELSE [b EXCEPT !.state = new_state]

\* onSuccess that closes on the first success in HALF_OPEN.
OnSuccessCloseAtOnce(b) ==
    IF b.state = "HALF_OPEN"
    THEN [b EXCEPT !.failures = 0, !.successes = 0, !.state = "CLOSED"]
    ELSE [b EXCEPT !.failures = 0]

\* onSuccess
OnSuccess(b) ==
    IF b.state = "HALF_OPEN"
    THEN IF b.successes + 1 >= b.config.success_threshold
         THEN [TransitionTo([b EXCEPT !.failures = 0], "CLOSED", 0)
                    EXCEPT !.successes = 0]
         ELSE [b EXCEPT !.failures = 0, !.successes = @ + 1]
    ELSE [b EXCEPT !.failures = 0]

\* this.failures++
Failed(b) == [b EXCEPT !.failures = Min(@ + 1, MaxFailures)]

\* onFailure that opens only above the threshold.
OnFailureAboveThreshold(b, t) ==
    IF b.state = "HALF_OPEN"
    THEN [TransitionTo(Failed(b), "OPEN", t) EXCEPT !.successes = 0]
    ELSE IF Failed(b).failures > b.config.failure_threshold
    THEN TransitionTo(Failed(b), "OPEN", t)
    ELSE Failed(b)

\* onFailure at time t.
OnFailure(b, t) ==
    IF b.state = "HALF_OPEN"
    THEN [TransitionTo(Failed(b), "OPEN", t) EXCEPT !.successes = 0]
    ELSE IF Failed(b).failures >= b.config.failure_threshold
    THEN TransitionTo(Failed(b), "OPEN", t)
    ELSE Failed(b)

\* The guard of execute that lets a call through one tick early.
RejectsBeforeLastTick(b, t) ==
    b.state = "OPEN" /\ t < b.next_attempt_time - 500

\* The guard of execute: the call is refused before the operation is invoked.
Rejects(b, t) == b.state = "OPEN" /\ t < b.next_attempt_time

\* execute up to the invocation of the operation, for a call let through.
Entered(b) == IF b.state = "OPEN" THEN TransitionTo(b, "HALF_OPEN", 0) ELSE b

----------------------------------------------------------------------------
(* The circuit breaker under calls that overlap (SpecCB) *)

\* How many execute() calls a run of the breaker may hold.
MaxCbCalls == 6

\* How many times the clock may advance in a run of the breaker.
MaxCbTicks == 5

CbSteps == {500}

CbConfigs ==
    [failure_threshold : {1, 2, 3}, timeout_ms : {1000}, success_threshold : {1, 2}]

\* No call yet: none running, no event, no failure and no success counted.
CbIdleCalls ==
    [running |-> 0, event |-> NoEvent, started |-> 0, streak |-> 0, trial |-> 0,
     old |-> 0]

CbInit ==
    /\ now = 0
    /\ ticks = 0
    /\ store = << >>
    /\ cfg = NoCall
    /\ last = NoEval
    /\ hist = NoCall
    /\ ConcIdle
    /\ policies = NoPolicies
    /\ overrides = {}
    /\ cache = << >>
    /\ decision = NoDecision
    /\ lookup = NoLookup
    /\ reqs = [checks |-> 0, lookups |-> 0, creates |-> 0, deletes |-> 0]
    /\ applyCall = NoApplied
    /\ env = Healthy
    /\ scriptsLoaded = TRUE
    /\ \E config \in CbConfigs : breaker = NewBreaker(config)
    /\ fallback = << >>
    /\ calls = CbIdleCalls
    /\ deletedAt = NotDeleted
    /\ AuxIdle

CbFrame ==
    UNCHANGED <<store, primVars, concVars, svcVars, applyCall, env, scriptsLoaded,
                fallback, deletedAt, auxVars>>

CbTick ==
    /\ ticks < MaxCbTicks
    /\ \E d \in CbSteps : now' = now + d
    /\ ticks' = ticks + 1
    /\ UNCHANGED <<breaker, calls>>
    /\ CbFrame

\* What a step of execute did: the breaker before and after it.
Event(kind, after) == [kind |-> kind, before |-> breaker, after |-> after, at |-> now]

\* execute, up to the point where it throws or awaits the operation.
CbExecute ==
    /\ calls.started < MaxCbCalls
    /\ IF Rejects(breaker, now)
       THEN /\ breaker' = breaker
            /\ calls' = [calls EXCEPT !.started = @ + 1,
                                      !.event = Event("rejected", breaker)]
       ELSE /\ breaker' = Entered(breaker)
            /\ calls' = [calls EXCEPT !.started = @ + 1, !.running = @ + 1,
                                      !.event = Event("invoked", Entered(breaker)),
                                      !.trial = IF breaker.state = "OPEN" THEN 0 ELSE @,
                                      !.old = IF breaker.state = "CLOSED"
                                              THEN @ + 1 ELSE @]
    /\ UNCHANGED clockVars
    /\ CbFrame

\* The operations that are running: those execute invoked while the breaker
\* was CLOSED (old) and those it invoked as trials.
Running == {k \in {"old", "trial"} :
                IF k = "old" THEN calls.old > 0 ELSE calls.running > calls.old}

\* One of the running operations ends.
Ended(c, k) == [c EXCEPT !.running = @ - 1, !.old = IF k = "old" THEN @ - 1 ELSE @]

\* execute once the operation has returned: onSuccess.
CbSucceed ==
    /\ breaker' = OnSuccess(breaker)
    /\ \E k \in Running :
        calls' = [Ended(calls, k) EXCEPT
                    !.streak = 0,
                    !.trial = IF breaker.state = "HALF_OPEN" THEN @ + 1 ELSE 0,
                    !.event = Event("success", OnSuccess(breaker)) @@ [of |-> k]]
    /\ UNCHANGED clockVars
    /\ CbFrame

\* execute once the operation has thrown: onFailure.
CbFail ==
    /\ breaker' = OnFailure(breaker, now)
    /\ \E k \in Running :
        calls' = [Ended(calls, k) EXCEPT
                    !.streak = Min(@ + 1, MaxFailures), !.trial = 0,
                    !.event = Event("failure", OnFailure(breaker, now)) @@ [of |-> k]]
    /\ UNCHANGED clockVars
    /\ CbFrame

CbNext == CbTick \/ CbExecute \/ CbSucceed \/ CbFail

SpecCB == CbInit /\ [][CbNext]_vars

\* The last event is a step of the given kind taken in the given state.
EventIn(kind, state) ==
    /\ calls.event # NoEvent
    /\ calls.event.kind = kind
    /\ calls.event.before.state = state

\* C16: in CLOSED each failure increments the failure counter and any
\* success resets it to 0; the breaker opens exactly when failure_threshold
\* failures have occurred with no success in between, and then
\* next_attempt_time = now + timeout_ms.
C16_OpensAtThreshold ==
    /\ breaker.state = "CLOSED"
         => breaker.failures = calls.streak
            /\ calls.streak < breaker.config.failure_threshold
    /\ EventIn("failure", "CLOSED")
         => /\ calls.event.after.failures = calls.event.before.failures + 1
            /\ calls.event.after.state = "OPEN"
                 <=> calls.streak = breaker.config.failure_threshold
            /\ calls.event.after.state = "OPEN"
                 => calls.event.after.next_attempt_time
                        = calls.event.at + breaker.config.timeout_ms
            /\ calls.event.after.state \in {"OPEN", "CLOSED"}
    /\ EventIn("success", "CLOSED")
         => calls.event.after.failures = 0 /\ calls.event.after.state = "CLOSED"

\* The breaker has just opened on its second failure in a row.
C16_Witness ==
    /\ EventIn("failure", "CLOSED")
    /\ calls.event.after.state = "OPEN"
    /\ calls.event.before.failures = 1
    /\ breaker.config.failure_threshold = 2

\* C17: while the breaker is OPEN and now < next_attempt_time every execute
\* call fails without invoking the operation; an execute call at or after
\* next_attempt_time moves the breaker to HALF_OPEN and invokes it.
C17_OpenRejectsUntilTimeout ==
    /\ (EventIn("rejected", "OPEN") \/ EventIn("invoked", "OPEN"))
         => IF calls.event.at < calls.event.before.next_attempt_time
            THEN calls.event.kind = "rejected"
                 /\ calls.event.after = calls.event.before
            ELSE calls.event.kind = "invoked"
                 /\ calls.event.after.state = "HALF_OPEN"
    /\ (calls.event # NoEvent /\ calls.event.kind = "rejected")
         => calls.event.before.state = "OPEN"

\* A call has been refused half a second before next_attempt_time.
C17_Witness ==
    /\ EventIn("rejected", "OPEN")
    /\ calls.event.at = calls.event.before.next_attempt_time - 500

\* A call at next_attempt_time has been let through.
C17_WitnessTrial ==
    /\ EventIn("invoked", "OPEN")
    /\ calls.event.at = calls.event.before.next_attempt_time

\* The state changes of the breaker the design allows.
CbTransitions ==
    { <<"CLOSED", "OPEN">>, <<"OPEN", "HALF_OPEN">>,
      <<"HALF_OPEN", "OPEN">>, <<"HALF_OPEN", "CLOSED">> }

\* What C18 says of the last event.
HalfOpenRule ==
    /\ EventIn("failure", "HALF_OPEN")
         => /\ calls.event.after.state = "OPEN"
            /\ calls.event.after.next_attempt_time
                    = calls.event.at + breaker.config.timeout_ms
    /\ EventIn("success", "HALF_OPEN")
         => (calls.event.after.state = "CLOSED"
                <=> calls.trial = breaker.config.success_threshold)
    /\ (calls.event # NoEvent /\ calls.event.after.state = "CLOSED"
            /\ calls.event.before.state # "CLOSED")
         => EventIn("success", "HALF_OPEN")

\* C18: in HALF_OPEN any failure moves the breaker back to OPEN with
\* next_attempt_time = now + timeout_ms; it moves to CLOSED only after
\* success_threshold successes with no failure in between; and the state
\* only ever changes CLOSED->OPEN, OPEN->HALF_OPEN, HALF_OPEN->OPEN or
\* HALF_OPEN->CLOSED.
C18_HalfOpenAndTransitions ==
    [][ /\ HalfOpenRule'
        /\ breaker'.state # breaker.state
             => <<breaker.state, breaker'.state>> \in CbTransitions ]_vars

\* The breaker has just closed on its second success in a row in HALF_OPEN.
C18_Witness ==
    /\ EventIn("success", "HALF_OPEN")
    /\ calls.event.after.state = "CLOSED"
    /\ breaker.config.success_threshold = 2
    /\ calls.trial = 2

----------------------------------------------------------------------------
(* The fallback limiter *)

\* windowMs
WindowMs == 60000

\* fallbackConfig.rpm of the runs: small, so that a run can exhaust it.
FallbackRpm == 2

\* getBucketKey
FallbackKey(tenant_id) == "fallback:" \o tenant_id

\* The bucket of a key, created empty when there is none.
BucketOf(fb, key, t) ==
    IF key \in DOMAIN fb THEN fb[key] ELSE [requests |-> << >>, lastCleanup |-> t]

\* The filter with a window of half a minute.
InWindowHalf(requests, t) ==
    SelectSeq(requests, LAMBDA timestamp : 2 * timestamp > 2 * t - WindowMs)

\* The requests of the bucket that are inside the sliding window at t.
InWindow(requests, t) == SelectSeq(requests, LAMBDA timestamp : timestamp > t - WindowMs)

\* The state the fallback limiter reports at requestCount requests.
FallbackState(requestCount) ==
    IF requestCount * 100 >= 110 * FallbackRpm THEN "hard"
    ELSE IF requestCount * 100 >= 100 * FallbackRpm THEN "soft"
    ELSE "normal"

\* The decision that reports allowed as computed, whatever the mode.
FallbackDecisionInAnyMode(requests, mode, t) ==
    [allowed |-> Len(requests) < FallbackRpm,
     state |-> FallbackState(Len(requests)), scope |-> "tenant_global",
     limit |-> FallbackRpm, remaining |-> Max(0, FallbackRpm - Len(requests)),
     reset |-> CeilDiv(t + WindowMs, 1000),
     retry_after |-> IF Len(requests) < FallbackRpm THEN Undefined
                     ELSE CeilDiv(WindowMs - (t - requests[1]), 1000),
     results |-> << >>, store |-> store]

\* The decision of the fallback limiter for a window that holds requests.
FallbackDecision(requests, mode, t) ==
    [allowed |-> IF mode = "enforcement" THEN Len(requests) < FallbackRpm ELSE TRUE,
     state |-> FallbackState(Len(requests)), scope |-> "tenant_global",
     limit |-> FallbackRpm, remaining |-> Max(0, FallbackRpm - Len(requests)),
     reset |-> CeilDiv(t + WindowMs, 1000),
     retry_after |-> IF Len(requests) < FallbackRpm THEN Undefined
                     ELSE CeilDiv(WindowMs - (t - requests[1]), 1000),
     results |-> << >>, store |-> store]

\* The bucket after the request: the window, with the request when it fits.
FallbackBucket(requests, t) ==
    [requests |-> IF Len(requests) < FallbackRpm THEN Append(requests, t) ELSE requests,
     lastCleanup |-> t]

\* FallbackHandler.checkRateLimit on the window of the tenant.
FallbackOn(requests, fb, tenant_id, mode, t) ==
    [decision |-> FallbackDecision(requests, mode, t),
     fallback |-> (FallbackKey(tenant_id) :> FallbackBucket(requests, t)) @@ fb]

\* FallbackHandler.checkRateLimit
FallbackCheckRateLimit(fb, tenant_id, mode, t) ==
    FallbackOn(InWindow(BucketOf(fb, FallbackKey(tenant_id), t).requests, t),
               fb, tenant_id, mode, t)

----------------------------------------------------------------------------
(* checkRateLimit behind the circuit breaker, and the middleware *)

\* getActiveOverride that caches null when the find fails.
LookupOutcomesCachingFailure(docs, c, tenant_id, user_id, endpoint, t, up) ==
    IF up \/ CacheGet(c, GetCacheKey(tenant_id, user_id, endpoint), t) # Miss
    THEN { lk @@ [failed |-> FALSE] :
            lk \in GetActiveOverrideOutcomes(docs, c, tenant_id, user_id, endpoint, t) }
    ELSE { [override |-> Null,
            cache |-> CacheSet(c, GetCacheKey(tenant_id, user_id, endpoint), Null, t),
            cached |-> FALSE, filledAt |-> t, failed |-> TRUE] }

\* getActiveOverride with its catch block: a cached answer needs no store;
\* otherwise the find either answers (up) or throws, and then null is
\* returned and cache.set is not reached.
LookupOutcomes(docs, c, tenant_id, user_id, endpoint, t, up) ==
    IF up \/ CacheGet(c, GetCacheKey(tenant_id, user_id, endpoint), t) # Miss
    THEN { lk @@ [failed |-> FALSE] :
            lk \in GetActiveOverrideOutcomes(docs, c, tenant_id, user_id, endpoint, t) }
    ELSE { [override |-> Null, cache |-> c, cached |-> FALSE, filledAt |-> t,
            failed |-> TRUE] }

\* The lookup that was not reached.
NoLk(c) == [override |-> Null, cache |-> c, cached |-> FALSE, filledAt |-> 0,
            failed |-> FALSE]

\* EVALSHA runs the script: the store is reachable and holds the script, or
\* the client has no sha yet and loads the script first.
BucketsAnswer(e, loaded) == e.redis = "up" /\ (e.scripts \/ ~loaded)

\* loadPolicy finds no policy for the tenant.
PolicyNotFound(tenant_id) ==
    policies = NoPolicies \/ tenant_id \notin DOMAIN policies.tenants

\* performHierarchicalCheck threw.
Thrown(error, lk) == [ok |-> FALSE, error |-> error, lk |-> lk, d |-> NoDecision]

\* performHierarchicalCheck returned a decision.
Returned(d, lk) == [ok |-> TRUE, error |-> "none", lk |-> lk, d |-> d]

\* The override bans the tenant.
Bans(override, tp0) ==
    override # Null /\ ApplyOverride(override, tp0.tenant, tp0.user).banned

\* performHierarchicalCheck from step 2 on: a ban is answered without the
\* bucket store, anything else needs it.
AfterLookup(lk, tp0, gp, tenant_id, user_id, endpoint, st, t, answers) ==
    IF ~answers /\ ~Bans(lk.override, tp0)
    THEN Thrown("RedisError", lk)
    ELSE Returned(PerformCheck(tp0, gp, lk.override, tenant_id, user_id, endpoint,
                               st, t), lk)

\* performHierarchicalCheck: the outcomes it can have in the current state.
PerformHierarchicalCheck(tenant_id, user_id, endpoint) ==
    IF PolicyNotFound(tenant_id)
    THEN {Thrown("PolicyNotFound", NoLk(cache))}
    ELSE { AfterLookup(lk, policies.tenants[tenant_id], policies.global,
                       tenant_id, user_id, endpoint, store, now,
                       BucketsAnswer(env, scriptsLoaded)) :
            lk \in LookupOutcomes(overrides, cache, tenant_id, user_id, endpoint,
                                  now, env.mongo = "up") }

\* A response without a body.
NotSet == [notSet |-> TRUE]

\* A header that is not set, and one that is set to v.
NoHeader == << >>
Header(v) == <<v>>

\* if (decision.retry_after): neither undefined nor 0.
Truthy(n) == n # Undefined /\ n # 0

\* The body of the 429 response.
Body429(d) ==
    [limit |-> d.limit, remaining |-> d.remaining, reset |-> d.reset,
     retry_after |-> d.retry_after, scope |-> d.scope]

\* The middleware that answers 429 on every denied decision.
RespondRejectingInAnyMode(d, mode) ==
    [next |-> d.allowed,
     status429 |-> ~d.allowed,
     limitHeaders |-> TRUE, errorHeader |-> FALSE,
     modeHeader |-> Header(mode),
     retryAfterHeader |-> IF Truthy(d.retry_after) THEN Header(d.retry_after) ELSE NoHeader,
     warningHeader |-> d.state = "soft" /\ d.allowed,
     shadowHeader |-> ~d.allowed /\ mode = "shadow",
     exceededHeader |-> ~d.allowed /\ mode = "logging",
     body |-> IF ~d.allowed THEN Body429(d) ELSE NotSet]

\* The middleware on a decision: the headers it sets and whether it calls
\* next() or answers 429.
Respond(d, mode) ==
    [next |-> d.allowed \/ mode # "enforcement",
     status429 |-> ~d.allowed /\ mode = "enforcement",
     limitHeaders |-> TRUE, errorHeader |-> FALSE,
     modeHeader |-> Header(mode),
     retryAfterHeader |-> IF Truthy(d.retry_after) THEN Header(d.retry_after) ELSE NoHeader,
     warningHeader |-> d.state = "soft" /\ d.allowed,
     shadowHeader |-> ~d.allowed /\ mode = "shadow",
     exceededHeader |-> ~d.allowed /\ mode = "logging",
     body |-> IF ~d.allowed /\ mode = "enforcement" THEN Body429(d) ELSE NotSet]

\* The response on which no header is set and next() is called.
PassedOn ==
    [next |-> TRUE, status429 |-> FALSE, limitHeaders |-> FALSE,
     errorHeader |-> FALSE, modeHeader |-> NoHeader, retryAfterHeader |-> NoHeader,
     warningHeader |-> FALSE, shadowHeader |-> FALSE, exceededHeader |-> FALSE,
     body |-> NotSet]

\* The middleware when something in its try block throws.
RespondToError == [PassedOn EXCEPT !.errorHeader = TRUE]

\* The decision with the request it answers, the path that produced it and
\* what the request saw.
Answer(path, error, d, lk, tenant_id, user_id, endpoint, mode) ==
    Observed(d, lk, tenant_id, user_id, endpoint)
        @@ [path |-> path, error |-> error, mode |-> mode,
            lookupFailed |-> lk.failed, cacheBefore |-> cache, cacheAfter |-> lk.cache,
            breakerBefore |-> breaker.state, response |-> Respond(d, mode)]

\* The decision without what the request saw.
Brief(path, error, d, tenant_id, user_id, endpoint, mode) ==
    [tenant_id |-> tenant_id, user_id |-> user_id, endpoint |-> endpoint,
     path |-> path, error |-> error, mode |-> mode, allowed |-> d.allowed,
     state |-> d.state, scope |-> d.scope, response |-> Respond(d, mode)]

\* What the run keeps of a decision: all of it, or the decision alone.
Noted(detail, path, error, d, lk, tenant_id, user_id, endpoint, mode) ==
    IF detail
    THEN Answer(path, error, d, lk, tenant_id, user_id, endpoint, mode)
    ELSE Brief(path, error, d, tenant_id, user_id, endpoint, mode)

\* executeWithFallback when the operation returned: the breaker counts a
\* success and the decision is that of the buckets (or of the ban).
Served(o, tenant_id, user_id, endpoint, mode, detail) ==
    /\ breaker' = OnSuccess(Entered(breaker))
    /\ store' = o.d.store
    /\ cache' = o.lk.cache
    /\ fallback' = fallback
    /\ scriptsLoaded' = (scriptsLoaded \/ o.d.results # << >>)
    /\ env' = IF o.d.results # << >> THEN [env EXCEPT !.scripts = TRUE] ELSE env
    /\ decision' = Noted(detail, "primary", "none", o.d, o.lk, tenant_id, user_id,
                         endpoint, mode)

\* The effects of the fallback operation.
FellBack(fell, error, lk, tenant_id, user_id, endpoint, mode, detail) ==
    /\ fallback' = fell.fallback
    /\ decision' = Noted(detail, "fallback", error, fell.decision, lk, tenant_id,
                         user_id, endpoint, mode)

\* executeWithFallback when the operation threw: the breaker is left as b
\* and the fallback limiter decides.
Fallen(error, b, lk, tenant_id, user_id, endpoint, mode, detail) ==
    /\ breaker' = b
    /\ store' = store
    /\ cache' = lk.cache
    /\ UNCHANGED <<env, scriptsLoaded>>
    /\ \E fell \in {FallbackCheckRateLimit(fallback, tenant_id, mode, now)} :
            FellBack(fell, error, lk, tenant_id, user_id, endpoint, mode, detail)

\* The middleware on one request: checkRateLimit, that is the circuit
\* breaker around performHierarchicalCheck with the fallback limiter behind
\* it, and the response. The run keeps the decision with what the request
\* saw (detail) or the decision alone.
Handled(tenant_id, user_id, endpoint, mode, detail) ==
    /\ IF Rejects(breaker, now)
       THEN Fallen("CircuitOpen", breaker, NoLk(cache), tenant_id, user_id, endpoint,
                   mode, detail)
       ELSE \E o \in PerformHierarchicalCheck(tenant_id, user_id, endpoint) :
                IF o.ok
                THEN Served(o, tenant_id, user_id, endpoint, mode, detail)
                ELSE Fallen(o.error, OnFailure(Entered(breaker), now), o.lk,
                            tenant_id, user_id, endpoint, mode, detail)
    /\ UNCHANGED <<clockVars, primVars, concVars, policies, overrides, lookup,
                   applyCall, calls, deletedAt, auxVars>>

Handle(tenant_id, user_id, endpoint, mode) ==
    Handled(tenant_id, user_id, endpoint, mode, TRUE)

----------------------------------------------------------------------------
(* The service while the override store fails and recovers (SpecSvc) *)

\* Tenant A has a policy; tenant Z has none.
SvcTenants == {"A", "Z"}

SvcModes == {"enforcement", "shadow"}

SvcBreakerConfigs ==
    [failure_threshold : {2}, timeout_ms : {50000}, success_threshold : {1}]

\* The overrides of these runs: a ban and a halving penalty.
SvcKinds == {k \in OverrideKinds : k.override_type # "custom_limit"}

SvcInit ==
    /\ now = 0
    /\ ticks = 0
    /\ store = << >>
    /\ cfg = [none |-> TRUE]
    /\ last = NoEval
    /\ hist = [evals |-> 0, allowed |-> 0, firstMs |-> 0, epochMs |-> 0,
               epochAllowed |-> 0]
    /\ ConcIdle
    /\ policies = OvPolicies
    /\ overrides = {}
    /\ cache = << >>
    /\ decision = NoDecision
    /\ lookup = NoLookup
    /\ reqs = [checks |-> 0, lookups |-> 0, creates |-> 0, deletes |-> 0]
    /\ applyCall = NoApplied
    /\ env = Healthy
    /\ scriptsLoaded = TRUE
    /\ \E config \in SvcBreakerConfigs : breaker = NewBreaker(config)
    /\ fallback = << >>
    /\ calls = [running |-> 0, event |-> NoEvent]
    /\ deletedAt = NotDeleted
    /\ AuxIdle

\* createOverride while the override store answers.
SvcCreate ==
    /\ env.mongo = "up"
    /\ \E u \in Users \cup {Absent}, kind \in SvcKinds, d \in OvDurations :
            CreateOverride("A", u, Absent, kind, d)

\* The override store stops answering.
MongoFails ==
    /\ env.mongo = "up"
    /\ env' = [env EXCEPT !.mongo = "down"]
    /\ UNCHANGED <<clockVars, store, primVars, concVars, svcVars, applyCall,
                   scriptsLoaded, breaker, fallback, calls, deletedAt, auxVars>>

\* The override store answers again.
MongoHeals ==
    /\ env.mongo = "down"
    /\ env' = [env EXCEPT !.mongo = "up"]
    /\ UNCHANGED <<clockVars, store, primVars, concVars, svcVars, applyCall,
                   scriptsLoaded, breaker, fallback, calls, deletedAt, auxVars>>

\* A request through the middleware.
SvcHandle ==
    /\ OpsLeft
    /\ \E t \in SvcTenants, u \in Users, e \in OvEndpoints, mode \in SvcModes :
            Handle(t, u, e, mode)
    /\ reqs' = [reqs EXCEPT !.checks = @ + 1]

SvcNext == OvTick \/ SvcCreate \/ MongoFails \/ MongoHeals \/ SvcHandle

SpecSvc == SvcInit /\ [][SvcNext]_vars

\* The last request was one whose override lookup failed.
LookupFailed == decision # NoDecision /\ decision.lookupFailed

\* What the buckets decide for the request of the last decision under the
\* tenant policy as configured.
Unmodified ==
    RunChecks(policies.tenants[decision.tenant_id], policies.global,
              decision.tenant_id, decision.user_id, decision.endpoint,
              decision.before, decision.at)

\* C12: when the override store fails during getActiveOverride the lookup
\* returns no override, the request is decided with the unmodified tenant
\* policy (so the failure causes no denial of its own), nothing is raised to
\* the decisioner, and nothing is cached.
C12_LookupFailureFailsOpen ==
    LookupFailed
        => /\ decision.override = Null
           /\ decision.error = "none"
           /\ decision.path = "primary"
           /\ decision.cacheAfter = decision.cacheBefore
           /\ decision.results = Unmodified.results
           /\ decision.allowed = Unmodified.allowed
           /\ decision.state = Unmodified.state
           /\ decision.limit = Unmodified.limit

\* The lookup failed while a ban of the tenant was in force, and the request
\* was allowed.
C12_Witness ==
    /\ LookupFailed
    /\ \E o \in decision.active : o.override_type = "temporary_ban"
    /\ decision.allowed
    /\ decision.state = "normal"

\* C20: when no tenant policy can be resolved the decisioner fails with
\* PolicyNotFound and the middleware fails open: the request is passed on
\* with X-RateLimit-Error: true and no rate-limit decision is applied.
C20_PolicyNotFoundFailsOpen ==
    (decision # NoDecision /\ decision.tenant_id \notin DOMAIN policies.tenants)
        => decision.response = RespondToError

----------------------------------------------------------------------------
(* Overrides created and deleted again while requests are decided (SpecTrip) *)

\* How many operations a run of this section may hold.
MaxTripOps == 4

\* The overrides of these runs outlive the run unless they are deleted.
TripDurations == {100000}

\* An override for the whole tenant or for one user, of any type.
TripCreate ==
    \E u \in Users \cup {Absent}, kind \in OverrideKinds, d \in TripDurations :
        CreateOverride("A", u, Absent, kind, d)

\* deleteOverride, the run noting when.
TripDelete ==
    /\ \E o \in overrides : Deleted(o)
    /\ deletedAt' = now
    /\ UNCHANGED <<applyCall, env, scriptsLoaded, breaker, fallback, calls, auxVars>>

\* A request of tenant A through the middleware, both stores healthy.
TripHandle ==
    /\ reqs.checks + reqs.creates + reqs.deletes < MaxTripOps
    /\ \E u \in Users, e \in OvEndpoints : Handle("A", u, e, "enforcement")
    /\ reqs' = [reqs EXCEPT !.checks = @ + 1]

TripNext == OvTick \/ TripCreate \/ TripDelete \/ TripHandle

SpecTrip == SvcInit /\ [][TripNext]_vars

\* The last decision was taken more than the cache TTL after the last
\* delete, and by then every override ever created had been deleted.
AfterRoundTrip ==
    /\ decision # NoDecision
    /\ reqs.creates >= 1
    /\ reqs.creates = reqs.deletes
    /\ decision.at > deletedAt + CACHE_TTL_MS

----------------------------------------------------------------------------
(* The check list and the aggregation of its results *)

\* The scopes in check order.
ScopeOrder ==
    <<"user_global", "user_endpoint", "tenant_global", "tenant_endpoint",
      "global_endpoint", "global_system">>

\* The endpoint map has an entry for the endpoint of the request.
HasEntry(endpoints, endpoint) ==
    \E pattern \in DOMAIN endpoints :
        pattern = endpoint \/ pattern = NormalizeEndpoint(endpoint)

\* The scope has a configured policy for the request of the last decision.
Configured(scope) ==
    CASE scope = "user_global" ->
            policies.tenants[decision.tenant_id].user # NoPolicy
      [] scope = "user_endpoint" ->
            HasEntry(policies.tenants[decision.tenant_id].user_endpoints,
                     decision.endpoint)
      [] scope = "tenant_endpoint" ->
            HasEntry(policies.tenants[decision.tenant_id].tenant_endpoints,
                     decision.endpoint)
      [] scope = "global_endpoint" ->
            HasEntry(policies.global.endpoints, decision.endpoint)
      [] OTHER -> TRUE

\* The scopes of the results of the last decision, in the order of the results.
ScopesChecked == [i \in DOMAIN decision.results |-> decision.results[i].scope]

C14_WitnessOmitted ==
    /\ decision # NoDecision
    /\ ScopesChecked = <<"tenant_global", "global_system">>

\* The positions of the check list whose keys carry the tenant hash tag, and
\* those of the global keys, both in list order.
TenantPositions(checks) ==
    SelectSeq([i \in 1..Len(checks) |-> i],
              LAMBDA i : checks[i].scope \notin {"global_endpoint", "global_system"})

GlobalPositions(checks) ==
    SelectSeq([i \in 1..Len(checks) |-> i],
              LAMBDA i : checks[i].scope \in {"global_endpoint", "global_system"})

\* A sequence back to front.
Reversed(s) == [i \in 1..Len(s) |-> s[Len(s) + 1 - i]]

\* The orders in which the store calls of executeBatchChecks can complete:
\* the tenant pipeline first, then the single calls of the global checks in
\* any order (there are at most two).
CompletionOrders(checks) ==
    { TenantPositions(checks) \o g :
        g \in {GlobalPositions(checks), Reversed(GlobalPositions(checks))} }

\* The store calls completing in the given order of positions, each on the
\* store the one before left: position -> result.
RECURSIVE CompleteInOrder(_, _, _, _)
Placed(pos, first, checks, rest, t) ==
    (pos :> first.result) @@ CompleteInOrder(checks, rest, first.store, t)

CompleteInOrder(checks, order, st, t) ==
    IF order = << >> THEN << >>
    ELSE Placed(Head(order), ExecuteCheck(checks[Head(order)], st, t), checks,
                Tail(order), t)

\* The check list of the request of the last decision (no override).
ChecksOfDecision ==
    BuildChecks(policies.tenants[decision.tenant_id], policies.global,
                decision.tenant_id, decision.user_id, decision.endpoint)

\* The results of the last decision are those of the placed results.
SameResults(placed) ==
    /\ DOMAIN placed = DOMAIN decision.results
    /\ \A i \in DOMAIN placed : placed[i] = decision.results[i]

\* The position of the result of the highest severity, the earliest of them.
Worst(results) ==
    CHOOSE i \in DOMAIN results :
        /\ \A j \in DOMAIN results :
                StatePriority(results[j].state) <= StatePriority(results[i].state)
        /\ \A j \in 1..(i - 1) :
                StatePriority(results[j].state) < StatePriority(results[i].state)

\* C15: the state and scope of the decision are those of the result of the
\* highest severity (hard > soft > normal), the earliest in check order on
\* a tie; they depend on the results and their check order only, not on the
\* order in which the store calls completed.
C15_WorstEarliestDecides ==
    (decision # NoDecision /\ decision.results # << >>)
        => /\ decision.state = decision.results[Worst(decision.results)].state
           /\ decision.scope = decision.results[Worst(decision.results)].scope
           /\ \A order \in CompletionOrders(ChecksOfDecision) :
                SameResults(CompleteInOrder(ChecksOfDecision, order,
                                            decision.before, decision.at))

\* Two results share the highest severity, above normal, and the decision
\* names the scope of the earlier one.
C15_Witness ==
    /\ decision # NoDecision
    /\ decision.state # "normal"
    /\ \E i, j \in DOMAIN decision.results :
        /\ i < j
        /\ decision.results[i].state = decision.state
        /\ decision.results[j].state = decision.state
        /\ decision.scope = decision.results[i].scope
    /\ Cardinality(CompletionOrders(ChecksOfDecision)) = 2

----------------------------------------------------------------------------
(* Failure and recovery of the bucket store (SpecRecover) *)

\* Date.now() of these runs. Time is kept relative: the clock reads Epoch
\* throughout and a tick moves every stored instant back by RecStep, not
\* below 0; an instant at 0 is older than every window, timeout and TTL.
Epoch == 80000

\* The time between two observations, in ms.
RecStep == 40000

\* Tenant A with two tokens of burst and a tenth of overshoot allowed.
RecPolicies ==
    [tenants |-> "A" :> [user |-> NoPolicy, user_endpoints |-> NoEndpoints,
                         tenant |-> Burst(2), tenant_endpoints |-> NoEndpoints,
                         throttle_config |-> [soft_threshold_pct |-> Undefined,
                                              hard_threshold_pct |-> 110]],
     global |-> [global |-> Burst(2), endpoints |-> NoEndpoints]]

\* The breaker's configurations; the circuit stays open for one step.
RecBreakerConfigs ==
    [failure_threshold : {1, 2}, timeout_ms : {RecStep}, success_threshold : {1, 2}]

\* The service once constructed: the client has not seen 'ready' yet and
\* the store holds no script.
RecInit ==
    /\ now = Epoch
    /\ ticks = 0
    /\ store = << >>
    /\ cfg = [none |-> TRUE]
    /\ last = NoEval
    /\ hist = [evals |-> 0, allowed |-> 0, firstMs |-> 0, epochMs |-> 0,
               epochAllowed |-> 0]
    /\ ConcIdle
    /\ policies = RecPolicies
    /\ overrides = {}
    /\ cache = << >>
    /\ decision = NoDecision
    /\ lookup = NoLookup
    /\ reqs = [checks |-> 0, lookups |-> 0, creates |-> 0, deletes |-> 0]
    /\ applyCall = NoApplied
    /\ env = [redis |-> "up", scripts |-> FALSE, mongo |-> "up"]
    /\ scriptsLoaded = FALSE
    /\ \E config \in RecBreakerConfigs : breaker = NewBreaker(config)
    /\ fallback = << >>
    /\ calls = [running |-> 0, event |-> NoEvent]
    /\ deletedAt = NotDeleted
    /\ AuxIdle

\* An instant moved back by d.
Earlier(instant, d) == Max(0, instant - d)

AgedCache(c, d) == [k \in DOMAIN c |-> [c[k] EXCEPT !.at = Earlier(@, d)]]

AgedBucket(bucket, d) ==
    [requests |-> [i \in DOMAIN bucket.requests |-> Earlier(bucket.requests[i], d)],
     lastCleanup |-> Earlier(bucket.lastCleanup, d)]

\* RecStep passes.
RecTick ==
    /\ store' = [k \in DOMAIN store |-> Aged(store[k], RecStep)]
    /\ cache' = AgedCache(cache, RecStep)
    /\ fallback' = [k \in DOMAIN fallback |-> AgedBucket(fallback[k], RecStep)]
    /\ breaker' = [breaker EXCEPT !.next_attempt_time = Earlier(@, RecStep)]
    /\ UNCHANGED <<clockVars, primVars, concVars, policies, overrides, decision,
                   lookup, reqs, applyCall, env, scriptsLoaded, calls, deletedAt,
                   auxVars>>

RecFrame ==
    UNCHANGED <<clockVars, store, primVars, concVars, svcVars, applyCall, breaker,
                fallback, calls, deletedAt, auxVars>>

\* The bucket store becomes unreachable; it keeps what it holds.
RedisFails ==
    /\ env.redis = "up"
    /\ env' = [env EXCEPT !.redis = "down"]
    /\ scriptsLoaded' = scriptsLoaded
    /\ RecFrame

\* The bucket store restarts: it is unreachable, and its script cache is
\* empty when it is back (the keys are kept by persistence).
RedisRestarts ==
    /\ env.redis = "up"
    /\ env' = [env EXCEPT !.redis = "down", !.scripts = FALSE]
    /\ scriptsLoaded' = scriptsLoaded
    /\ RecFrame

\* The client's 'ready' event, on the first connection and on every
\* reconnection: loadScripts, which returns at once when scriptsLoaded.
Ready ==
    /\ env.redis = "down" \/ ~scriptsLoaded
    /\ env' = [env EXCEPT !.redis = "up",
                          !.scripts = IF scriptsLoaded THEN @ ELSE TRUE]
    /\ scriptsLoaded' = TRUE
    /\ RecFrame

\* A request of tenant A through the middleware.
RecHandle ==
    /\ \E u \in Users, e \in OvEndpoints : Handled("A", u, e, "enforcement", FALSE)
    /\ UNCHANGED reqs

RecNext == RecTick \/ RedisFails \/ RedisRestarts \/ Ready \/ RecHandle

\* Time keeps passing; the store fails and comes back as it will, and so do
\* the requests.
SpecRecover == RecInit /\ [][RecNext]_vars /\ WF_vars(RecTick)

\* Requests keep arriving.
Arrivals == []<><<RecHandle>>_vars

\* The last decision came from the buckets with the circuit closed.
Recovered ==
    /\ breaker.state = "CLOSED"
    /\ decision # NoDecision
    /\ decision.path = "primary"

\* C19: recovery is live: once the bucket store answers again for good, the
\* timeout elapses, the trial requests succeed, the circuit closes and from
\* then on decisions come from the buckets, not from the fallback limiter.
C19_RecoveryIsLive == Arrivals /\ <>[](env.redis = "up") => <>[]Recovered

\* Recovery from the failures that leave the script in the store's cache.
RecoveryWithScriptCached ==
    Arrivals /\ <>[](env.redis = "up" /\ env.scripts) => <>[]Recovered

----------------------------------------------------------------------------
(* The fallback limiter on its own (SpecFb) *)

\* How many checkRateLimit calls of the fallback limiter a run may hold.
MaxFbCalls == 4

\* How many times the clock may advance in these runs.
MaxFbTicks == 2

\* The clock advances by half a window or by a window and a half.
FbSteps == {30000, 90000}

FbTenants == {"A", "Z"}

\* RateLimitMode
FbModes == {"enforcement", "shadow", "logging"}

FbInit ==
    /\ now = 0
    /\ ticks = 0
    /\ store = << >>
    /\ cfg = [none |-> TRUE]
    /\ last = NoEval
    /\ hist = [evals |-> 0, allowed |-> 0, firstMs |-> 0, epochMs |-> 0,
               epochAllowed |-> 0]
    /\ ConcIdle
    /\ SvcIdle

FbFrame ==
    UNCHANGED <<store, primVars, concVars, svcVars, applyCall, env, scriptsLoaded,
                breaker, calls, deletedAt>>

FbTick ==
    /\ ticks < MaxFbTicks
    /\ \E d \in FbSteps : now' = now + d
    /\ ticks' = ticks + 1
    /\ UNCHANGED <<fallback, fbLog, lateVars>>
    /\ FbFrame

\* What the run keeps of an answer of the fallback limiter: the request, the
\* decision, and the window before and after the call.
FbAnswer(fell, tenant_id, mode, t) ==
    [tenant_id |-> tenant_id, mode |-> mode, at |-> t,
     allowed |-> fell.decision.allowed, state |-> fell.decision.state,
     remaining |-> fell.decision.remaining,
     retry_after |-> fell.decision.retry_after,
     found |-> InWindow(BucketOf(fallback, FallbackKey(tenant_id), t).requests, t),
     left |-> fell.fallback[FallbackKey(tenant_id)].requests]

\* FallbackHandler.checkRateLimit
FbCheck ==
    /\ Len(fbLog) < MaxFbCalls
    /\ \E tenant_id \in FbTenants, mode \in FbModes :
        \E fell \in {FallbackCheckRateLimit(fallback, tenant_id, mode, now)} :
            /\ fallback' = fell.fallback
            /\ fbLog' = Append(fbLog, FbAnswer(fell, tenant_id, mode, now))
    /\ UNCHANGED <<clockVars, lateVars>>
    /\ FbFrame

\* cleanupOldBuckets, on its timer: the buckets unused for two windows go.
FbCleanup ==
    /\ \E k \in DOMAIN fallback : now - fallback[k].lastCleanup > 2 * WindowMs
    /\ fallback' = [k \in {key \in DOMAIN fallback :
                            now - fallback[key].lastCleanup <= 2 * WindowMs}
                    |-> fallback[k]]
    /\ UNCHANGED <<clockVars, fbLog, lateVars>>
    /\ FbFrame

FbNext == FbTick \/ FbCheck \/ FbCleanup

SpecFb == FbInit /\ [][FbNext]_vars

\* The answers before the i-th that admitted a request of the same tenant in
\* enforcement mode less than a window before it.
AdmittedBefore(i) ==
    {j \in 1..(i - 1) :
        /\ fbLog[j].tenant_id = fbLog[i].tenant_id
        /\ fbLog[j].mode = "enforcement"
        /\ fbLog[j].allowed
        /\ fbLog[j].at > fbLog[i].at - WindowMs}

\* C21: in enforcement mode the fallback limiter admits a request of a tenant
\* only if fewer than fallback_rpm requests of that tenant were admitted in
\* the preceding 60 s, so that no 60 s window holds more than fallback_rpm
\* admitted requests of a tenant; a rejected request is not added to the
\* window.
C21_FallbackSlidingWindow ==
    \A i \in DOMAIN fbLog :
        fbLog[i].mode = "enforcement" =>
            /\ fbLog[i].allowed => Cardinality(AdmittedBefore(i)) < FallbackRpm
            /\ ~fbLog[i].allowed => fbLog[i].left = fbLog[i].found

\* A request is rejected with the window full, and a later one of the same
\* tenant is admitted once the window has moved on.
C21_Witness ==
    \E i, j \in DOMAIN fbLog :
        /\ i < j
        /\ fbLog[i].tenant_id = fbLog[j].tenant_id
        /\ fbLog[i].mode = "enforcement" /\ ~fbLog[i].allowed
        /\ Len(fbLog[i].found) = FallbackRpm
        /\ fbLog[j].mode = "enforcement" /\ fbLog[j].allowed
        /\ AdmittedBefore(j) # {}

\* C22: in shadow and logging modes every decision of the fallback limiter
\* has allowed = true, however many requests the tenant's window holds.
C22_FallbackAllowsOutsideEnforcement ==
    \A i \in DOMAIN fbLog :
        fbLog[i].mode \in {"shadow", "logging"} => fbLog[i].allowed

\* Decisions in shadow and in logging mode on a full window.
C22_Witness ==
    \E i, j \in DOMAIN fbLog :
        /\ fbLog[i].mode = "shadow" /\ Len(fbLog[i].found) = FallbackRpm
        /\ fbLog[j].mode = "logging" /\ Len(fbLog[j].found) = FallbackRpm
        /\ fbLog[i].allowed /\ fbLog[j].allowed

----------------------------------------------------------------------------
(* The middleware in its three modes (SpecMw) *)

\* extractIdentity threw.
Raised == [raised |-> TRUE]

\* What extractIdentity can give the middleware on a request: tenant A, a
\* tenant without policy, an empty tenant id, or an exception.
Extracted ==
    {Raised} \cup [tenant_id : {"A", "Z", ""}, user_id : {"u1"}, endpoint : {"/a"}]

\* validateIdentity
ValidateIdentity(identity) ==
    identity.tenant_id # "" /\ identity.user_id # "" /\ identity.endpoint # ""

\* Tenant A with a burst of two tokens and no soft threshold.
MwPolicies ==
    { [tenants |-> "A" :> [user |-> NoPolicy, user_endpoints |-> NoEndpoints,
                           tenant |-> Burst(2), tenant_endpoints |-> NoEndpoints,
                           throttle_config |-> [soft_threshold_pct |-> Undefined,
                                                hard_threshold_pct |-> hard]],
       global |-> [global |-> Burst(5), endpoints |-> NoEndpoints]] :
        hard \in {100, 110} }

MwBreakerConfigs ==
    [failure_threshold : {2}, timeout_ms : {50000}, success_threshold : {1}]

MwInit ==
    /\ now = 0
    /\ ticks = 0
    /\ store = << >>
    /\ cfg = [none |-> TRUE]
    /\ last = NoEval
    /\ hist = [evals |-> 0, allowed |-> 0, firstMs |-> 0, epochMs |-> 0,
               epochAllowed |-> 0]
    /\ ConcIdle
    /\ policies \in MwPolicies
    /\ overrides = {}
    /\ cache = << >>
    /\ decision = NoDecision
    /\ lookup = NoLookup
    /\ reqs = [checks |-> 0, lookups |-> 0, creates |-> 0, deletes |-> 0]
    /\ applyCall = NoApplied
    /\ env = Healthy
    /\ scriptsLoaded = TRUE
    /\ \E config \in MwBreakerConfigs : breaker = NewBreaker(config)
    /\ fallback = << >>
    /\ calls = [running |-> 0, event |-> NoEvent]
    /\ deletedAt = NotDeleted
    /\ AuxIdle

\* What the run keeps of a request the decisioner was not asked about.
Undecided(identity, error, mode, response) ==
    [identity |-> identity, path |-> "none", error |-> error, mode |-> mode,
     allowed |-> TRUE, response |-> response]

\* The request ends in the middleware, before checkRateLimit.
EndsEarly(identity, error, mode, response) ==
    /\ decision' = Undecided(identity, error, mode, response)
    /\ UNCHANGED <<clockVars, store, primVars, concVars, policies, overrides, cache,
                   lookup, extVars>>

\* rateLimitMiddleware on one request.
RateLimitMiddleware(identity, mode) ==
    IF identity = Raised
    THEN EndsEarly(identity, "IdentityError", mode, RespondToError)
    ELSE IF ~ValidateIdentity(identity)
         THEN EndsEarly(identity, "InvalidIdentity", mode, PassedOn)
         ELSE Handle(identity.tenant_id, identity.user_id, identity.endpoint, mode)

MwRequest ==
    /\ OpsLeft
    /\ \E identity \in Extracted, mode \in FbModes : RateLimitMiddleware(identity, mode)
    /\ reqs' = [reqs EXCEPT !.checks = @ + 1]

\* An operator bans tenant A.
MwBan ==
    \E kind \in {k \in OverrideKinds : k.override_type = "temporary_ban"},
       d \in OvDurations :
        CreateOverride("A", Absent, Absent, kind, d)

\* The bucket store is back.
MwRedisHeals ==
    /\ env.redis = "down"
    /\ env' = [env EXCEPT !.redis = "up"]
    /\ scriptsLoaded' = scriptsLoaded
    /\ RecFrame

MwNext == OvTick \/ MwBan \/ RedisFails \/ MwRedisHeals \/ MwRequest

SpecMw == MwInit /\ [][MwNext]_vars

\* The last request was answered on a decision of the decisioner.
Answered == decision # NoDecision /\ decision.path # "none"

\* C23: on a decision with allowed = false the response depends on the mode
\* alone: shadow passes the request on with X-RateLimit-Shadow, logging
\* passes it on with X-RateLimit-Exceeded, enforcement answers 429; no
\* request is rejected in shadow or logging mode.
C23_ModeDecidesResponse ==
    /\ Answered /\ ~decision.allowed =>
        /\ decision.mode = "shadow" =>
            /\ decision.response.next /\ ~decision.response.status429
            /\ decision.response.shadowHeader /\ ~decision.response.exceededHeader
        /\ decision.mode = "logging" =>
            /\ decision.response.next /\ ~decision.response.status429
            /\ decision.response.exceededHeader /\ ~decision.response.shadowHeader
        /\ decision.mode = "enforcement" =>
            /\ decision.response.status429 /\ ~decision.response.next
            /\ ~decision.response.shadowHeader /\ ~decision.response.exceededHeader
    /\ decision # NoDecision /\ decision.mode # "enforcement" =>
        decision.response.next /\ ~decision.response.status429

\* A banned request in shadow mode is passed on.
C23_Witness ==
    /\ Answered /\ ~decision.allowed
    /\ decision.mode = "shadow"
    /\ decision.response.next /\ decision.response.shadowHeader

\* A request the buckets deny in logging mode is passed on.
C23_WitnessLogging ==
    /\ Answered /\ ~decision.allowed
    /\ decision.mode = "logging" /\ decision.path = "primary"
    /\ decision.results # << >>
    /\ decision.response.next /\ decision.response.exceededHeader

\* A request is rejected in enforcement mode.
C23_WitnessEnforcement ==
    /\ Answered /\ ~decision.allowed
    /\ decision.mode = "enforcement"
    /\ decision.response.status429


\* The errors the bucket store and its circuit breaker raise: they are
\* answered by the fallback limiter with the normal headers.
StoreErrors == {"RedisError", "CircuitOpen"}

\* The last request met an error that is neither the store's nor an
\* identity the middleware found invalid.
ErrorRaised ==
    /\ decision # NoDecision
    /\ decision.error \notin {"none", "InvalidIdentity"} \cup StoreErrors

\* C24: whatever error the decisioner or identity processing raises, the
\* middleware passes the request to the handler once with
\* X-RateLimit-Error: true; it answers neither 5xx nor 429 because of it.
C24_ErrorsFailOpen ==
    ErrorRaised =>
        /\ decision.response.next
        /\ decision.response.errorHeader
        /\ ~decision.response.status429

\* A request whose identity could not be extracted is passed on with the
\* error header.
C24_IdentityErrorPasses ==
    /\ decision # NoDecision
    /\ decision.error = "IdentityError"
    /\ decision.response = RespondToError

\* A request of a tenant without policy is answered 429 by the fallback
\* limiter.
C24_PolicyNotFoundBlocked ==
    /\ decision # NoDecision
    /\ decision.error = "PolicyNotFound"
    /\ decision.response.status429


\* The last request was answered 429 on the denial of a bucket.
BucketRejected ==
    /\ Answered
    /\ decision.path = "primary"
    /\ decision.results # << >>
    /\ decision.response.status429

\* C25: every 429 response produced in enforcement mode for a
\* hard-throttled bucket carries a Retry-After header equal to the body's
\* retry_after, and the value is at least one second.
C25_RejectionCarriesRetryAfter ==
    BucketRejected =>
        /\ decision.response.retryAfterHeader = Header(decision.response.body.retry_after)
        /\ decision.response.body.retry_after >= 1

\* A 429 for a ban carries the header.
C25_BanCarriesRetryAfter ==
    /\ Answered
    /\ decision.response.status429
    /\ decision.results = << >>
    /\ decision.response.retryAfterHeader = Header(decision.response.body.retry_after)
    /\ decision.response.body.retry_after >= 1


\* The last request was decided on the buckets.
BucketsDecided ==
    /\ Answered
    /\ decision.path = "primary"
    /\ decision.results # << >>

\* The epoch second at which the bucket of a result is back at its
\* burst_capacity when nothing more is consumed.
FullAgainAt(result, t) ==
    CalculateReset(result.tokens, result.policy.burst_capacity,
                   RefillRate(result.policy), t)

\* C26: the reset of a decision is the earliest epoch second at which the
\* worst scope's bucket is back at burst_capacity if nothing more is
\* consumed, ceil(now + (burst_capacity - tokens) / refill_rate_per_sec);
\* it is the current time only when the bucket is already full.
C26_ResetPredictsFullBucket ==
    BucketsDecided =>
        /\ decision.reset = FullAgainAt(AggregateResults(decision.results), decision.at)
        /\ decision.reset * 1000 <= decision.at =>
                AggregateResults(decision.results).tokens
                    >= AggregateResults(decision.results).policy.burst_capacity

\* A decision whose reset lies after the instant at which the bucket is full.
C26_ResetTooLate ==
    /\ BucketsDecided
    /\ decision.reset > FullAgainAt(AggregateResults(decision.results), decision.at)

----------------------------------------------------------------------------
(* The policy cache while a tenant policy is updated (SpecPc) *)

PcTenants == {"A", "B"}

\* POLICY_CACHE_REFRESH_INTERVAL_MS, its default.
RefreshIntervalMs == 60000

\* POLICY_CACHE_TTL_MS, its default.
PolicyTtlMs == 300000

\* The coherence bound of the policy cache.
CoherenceMs == 60000

\* How long the policy store takes to answer a read or a write, at most.
MaxReadMs == 1000

PcSteps == {1000, 59000}

\* How many times the clock may advance in a run of the policy cache.
MaxPcTicks == 4

\* How many loadPolicy calls and how many updates a run may hold.
MaxLoads == 3
MaxUpdates == 1

NotCached == [notCached |-> TRUE]

NoRefresh == [none |-> TRUE]

NoLoad == [none |-> TRUE]

\* The cache as constructed: empty, with the refresh timer set; the store
\* holds version 0 of every tenant policy.
NewPolicyCache ==
    [stored |-> [t \in PcTenants |-> 0],
     entries |-> [t \in PcTenants |-> NotCached],
     recent |-> << >>,
     misses |-> {},
     refresh |-> NoRefresh,
     invalidating |-> {},
     updatedAt |-> Undefined,
     nextRefresh |-> RefreshIntervalMs,
     loaded |-> NoLoad,
     loads |-> 0,
     updates |-> 0,
     swept |-> {}]

PcInit ==
    /\ now = 0
    /\ ticks = 0
    /\ store = << >>
    /\ cfg = [none |-> TRUE]
    /\ last = NoEval
    /\ hist = [evals |-> 0, allowed |-> 0, firstMs |-> 0, epochMs |-> 0,
               epochAllowed |-> 0]
    /\ ConcIdle
    /\ policies = NoPolicies
    /\ overrides = {}
    /\ cache = << >>
    /\ decision = NoDecision
    /\ lookup = NoLookup
    /\ reqs = [checks |-> 0, lookups |-> 0, creates |-> 0, deletes |-> 0]
    /\ applyCall = NoApplied
    /\ env = Healthy
    /\ scriptsLoaded = TRUE
    /\ breaker = NewBreaker(NoConfig)
    /\ fallback = << >>
    /\ calls = [running |-> 0, event |-> NoEvent]
    /\ deletedAt = NotDeleted
    /\ fbLog = << >>
    /\ job = NoJob
    /\ cli = NoClient
    /\ pc = NewPolicyCache

PcFrame ==
    UNCHANGED <<store, primVars, concVars, svcVars, applyCall, env, scriptsLoaded,
                breaker, fallback, calls, deletedAt, fbLog, job, cli>>

\* A sequence without the tenant.
Without(seq, tenant_id) == SelectSeq(seq, LAMBDA t : t # tenant_id)

\* The entry is in the cache and its ttl has not run out.
Fresh(c, tenant_id, t) ==
    /\ c.entries[tenant_id] # NotCached
    /\ t - c.entries[tenant_id].at <= PolicyTtlMs

\* tenantCache.set: the entry is written with a new age and becomes the most
\* recently used.
TenantCacheSet(c, tenant_id, v, t) ==
    [c EXCEPT !.entries[tenant_id] = [v |-> v, at |-> t],
              !.recent = <<tenant_id>> \o Without(c.recent, tenant_id)]

\* What findOne returns for a tenant that has no policy (null).
NotFound == Undefined

\* "if (policy) { this.tenantCache.set(tenant_id, policy) }"
SetIfFound(c, tenant_id, v, t) ==
    IF v = NotFound THEN c ELSE TenantCacheSet(c, tenant_id, v, t)

\* tenantCache.delete
TenantCacheDelete(c, tenant_id) ==
    [c EXCEPT !.entries[tenant_id] = NotCached,
              !.recent = Without(c.recent, tenant_id)]

\* A read of the policy store sent at t: it returns what the store holds.
ReadOf(c, tenant_id, t) ==
    [tenant_id |-> tenant_id, v |-> c.stored[tenant_id], issuedAt |-> t]

\* What a loadPolicy call returned.
Loaded(tenant_id, v, t) == [tenant_id |-> tenant_id, v |-> v, at |-> t]

\* Everything that waits for the policy store.
Awaited(c) ==
    c.misses \cup c.invalidating
        \cup (IF c.refresh = NoRefresh THEN {} ELSE {c.refresh.reading})

\* The clock advances; nothing waits for the store longer than MaxReadMs and
\* the refresh timer fires when it is due.
PcTick ==
    /\ ticks < MaxPcTicks
    /\ \E d \in PcSteps :
        /\ now + d <= pc.nextRefresh
        /\ \A r \in Awaited(pc) : now + d - r.issuedAt <= MaxReadMs
        /\ now' = now + d
    /\ ticks' = ticks + 1
    /\ UNCHANGED pc
    /\ PcFrame

\* getTenantPolicy, found in the cache (updateAgeOnGet).
PcLoadHit ==
    /\ pc.loads < MaxLoads
    /\ \E t \in PcTenants :
        /\ Fresh(pc, t, now)
        /\ pc' = [TenantCacheSet(pc, t, pc.entries[t].v, now)
                    EXCEPT !.loaded = Loaded(t, pc.entries[t].v, now),
                           !.loads = @ + 1]
    /\ UNCHANGED clockVars
    /\ PcFrame

\* getTenantPolicy, not found: up to await tenantService.getTenantPolicy.
PcLoadMiss ==
    /\ pc.loads < MaxLoads
    /\ \E t \in PcTenants :
        /\ ~Fresh(pc, t, now)
        /\ pc' = [TenantCacheDelete(pc, t)
                    EXCEPT !.misses = @ \cup {ReadOf(pc, t, now)},
                           !.loads = @ + 1]
    /\ UNCHANGED clockVars
    /\ PcFrame

\* getTenantPolicy after the await: the policy read is cached and returned.
PcMissLands ==
    /\ \E r \in pc.misses :
        pc' = [SetIfFound(pc, r.tenant_id, r.v, now)
                EXCEPT !.misses = @ \ {r},
                       !.loaded = Loaded(r.tenant_id, r.v, now)]
    /\ UNCHANGED clockVars
    /\ PcFrame

\* upsertTenantPolicy up to the await: the store holds the new policy of
\* tenant A.
PcUpdate ==
    /\ pc.updates < MaxUpdates
    /\ pc' = [pc EXCEPT !.stored["A"] = @ + 1,
                        !.updatedAt = now,
                        !.updates = @ + 1,
                        !.invalidating = @ \cup {[tenant_id |-> "A", issuedAt |-> now]}]
    /\ UNCHANGED clockVars
    /\ PcFrame

\* upsertTenantPolicy after the await, or the change stream: invalidateTenant.
PcInvalidate ==
    /\ \E i \in pc.invalidating :
        pc' = [TenantCacheDelete(pc, i.tenant_id) EXCEPT !.invalidating = @ \ {i}]
    /\ UNCHANGED clockVars
    /\ PcFrame

\* The refresh timer fires: refreshActivePolicies up to its first await.
PcRefreshFires ==
    /\ now >= pc.nextRefresh
    /\ pc.refresh = NoRefresh
    /\ pc' = [pc EXCEPT !.nextRefresh = @ + RefreshIntervalMs,
                        !.refresh = IF pc.recent = << >> THEN NoRefresh
                                    ELSE [todo |-> Tail(pc.recent),
                                          reading |-> ReadOf(pc, Head(pc.recent), now)]]
    /\ UNCHANGED clockVars
    /\ PcFrame

\* refreshActivePolicies after an await: the policy read is cached and the
\* next tenant of the list is read.
PcRefreshLands ==
    /\ pc.refresh # NoRefresh
    /\ pc' = [SetIfFound(pc, pc.refresh.reading.tenant_id, pc.refresh.reading.v, now)
                EXCEPT !.swept = IF pc.refresh.reading.v = NotFound
                                 THEN @ \cup {pc.refresh.reading.tenant_id} ELSE @,
                       !.refresh =
                    IF pc.refresh.todo = << >> THEN NoRefresh
                    ELSE [todo |-> Tail(pc.refresh.todo),
                          reading |-> ReadOf(pc, Head(pc.refresh.todo), now)]]
    /\ UNCHANGED clockVars
    /\ PcFrame

PcNext ==
    \/ PcTick
    \/ PcLoadHit
    \/ PcLoadMiss
    \/ PcMissLands
    \/ PcUpdate
    \/ PcInvalidate
    \/ PcRefreshFires
    \/ PcRefreshLands

SpecPc == PcInit /\ [][PcNext]_vars

\* The last loadPolicy call returned a policy of tenant A that the update
\* had replaced.
ReturnedStale ==
    /\ pc.loaded # NoLoad
    /\ pc.updatedAt # Undefined
    /\ pc.loaded.tenant_id = "A"
    /\ pc.loaded.v < pc.stored["A"]

\* C27: more than 60 s after a tenant policy has been updated in the policy
\* store, no loadPolicy call for that tenant returns the pre-update policy,
\* under every interleaving of cache misses, background refreshes,
\* invalidations and the update.
C27_PolicyCacheCoherent ==
    ReturnedStale => pc.loaded.at <= pc.updatedAt + CoherenceMs

\* The old policy is returned later than 60 s plus the time of one read of
\* the store after the update.
C27_StaleBeyondOneRead ==
    /\ ReturnedStale
    /\ pc.loaded.at > pc.updatedAt + CoherenceMs + MaxReadMs

\* The old policy is cached again after the invalidation of the update.
C27_StaleAfterInvalidation ==
    /\ pc.updatedAt # Undefined
    /\ pc.invalidating = {}
    /\ pc.misses = {}
    /\ pc.refresh = NoRefresh
    /\ pc.entries["A"] # NotCached
    /\ pc.entries["A"].v < pc.stored["A"]

----------------------------------------------------------------------------
(* The abuse detection job beside the operators (SpecJob) *)

JobTenants == {"A", "B"}

\* What the telemetry query can return: the tenants above the threshold.
AbusiveLists == {<< >>, <<"A">>, <<"A", "B">>}

\* penaltyDurationMs of the runs (a value greater than 0, as the
\* configuration demands).
JobPenaltyMs == 40000

\* duration_minutes of the operators' requests; 0 and a missing value are
\* answered 400.
DurationMinutes == {-1, 1}

\* The tenant the operators create overrides for.
PostTenants == {"A"}

\* How many times start and runDetection may be called in a run.
MaxStarts == 1
MaxRuns == 2

\* How many overrides the operators may create in a run.
MaxPosts == 1

\* The override of the detector with penaltyType 'adaptive'.
PenaltyKind ==
    [override_type |-> "penalty_multiplier", penalty_pct |-> 10,
     custom_rate |-> 0, custom_burst |-> 0]

BanKind ==
    [override_type |-> "temporary_ban", penalty_pct |-> 0,
     custom_rate |-> 0, custom_burst |-> 0]

\* The job as constructed.
NewJob(enabled) ==
    [enabled |-> enabled, intervalId |-> FALSE, running |-> FALSE,
     runs |-> {}, starts |-> 0, begun |-> 0, dropped |-> 0, created |-> {},
     posted |-> 0]

JobInit ==
    /\ now = 0
    /\ ticks = 0
    /\ store = << >>
    /\ cfg = [none |-> TRUE]
    /\ last = NoEval
    /\ hist = [evals |-> 0, allowed |-> 0, firstMs |-> 0, epochMs |-> 0,
               epochAllowed |-> 0]
    /\ ConcIdle
    /\ policies = NoPolicies
    /\ overrides = {}
    /\ cache = << >>
    /\ decision = NoDecision
    /\ lookup = NoLookup
    /\ reqs = [checks |-> 0, lookups |-> 0, creates |-> 0, deletes |-> 0]
    /\ applyCall = NoApplied
    /\ env = Healthy
    /\ scriptsLoaded = TRUE
    /\ breaker = NewBreaker(NoConfig)
    /\ fallback = << >>
    /\ calls = [running |-> 0, event |-> NoEvent]
    /\ deletedAt = NotDeleted
    /\ fbLog = << >>
    /\ pc = NoCache
    /\ cli = NoClient
    /\ \E enabled \in BOOLEAN : job = NewJob(enabled)

\* What the job and the operators leave alone.
JobFrame ==
    UNCHANGED <<clockVars, store, primVars, concVars, policies, decision, lookup,
                applyCall, env, scriptsLoaded, breaker, fallback, calls, deletedAt,
                fbLog, pc, cli>>

\* if (this.running)
BusyNever(j) == FALSE

Busy(j) == j.running

\* runDetection up to its first await: a call that finds a run executing
\* returns, any other starts a run that queries the telemetry.
RunDetection(j) ==
    IF Busy(j)
    THEN [j EXCEPT !.begun = @ + 1, !.dropped = @ + 1]
    ELSE [j EXCEPT !.begun = @ + 1, !.running = TRUE,
                   !.runs = @ \cup {[id |-> j.begun + 1, phase |-> "querying",
                                     queue |-> << >>, expires_at |-> Undefined]}]

\* start()
JobStart ==
    /\ job.starts < MaxStarts
    /\ job' = IF ~job.enabled \/ job.intervalId
              THEN [job EXCEPT !.starts = @ + 1]
              ELSE [RunDetection(job) EXCEPT !.starts = @ + 1, !.intervalId = TRUE]
    /\ UNCHANGED <<overrides, cache, reqs>>
    /\ JobFrame

\* The interval timer of start() fires.
JobTimerFires ==
    /\ job.intervalId
    /\ job.begun < MaxRuns
    /\ job' = RunDetection(job)
    /\ UNCHANGED <<overrides, cache, reqs>>
    /\ JobFrame

\* The run goes on with the tenants left, or ends (finally: running = false).
GoesOn(j, r, queue) ==
    IF queue = << >>
    THEN [j EXCEPT !.runs = @ \ {r}, !.running = FALSE]
    ELSE [j EXCEPT !.runs = (@ \ {r}) \cup
                    {[r EXCEPT !.phase = "checking", !.queue = queue,
                               !.expires_at = Undefined]}]

\* The telemetry query returns.
JobQueried ==
    /\ \E r \in job.runs, list \in AbusiveLists :
        /\ r.phase = "querying"
        /\ job' = GoesOn(job, r, list)
    /\ UNCHANGED <<overrides, cache, reqs>>
    /\ JobFrame

\* hasActiveOverride: whether the collection holds a non-expired override
\* of the tenant; false when the count fails.
HasActiveOverride(docs, tenant_id, t, answers) ==
    answers /\ ActiveOf(docs, tenant_id, t) # {}

\* penalizeTenant after hasActiveOverride returned: the tenant is skipped,
\* or the override is built and createOverride called.
JobChecked ==
    /\ \E r \in job.runs :
        /\ r.phase = "checking"
        /\ job' = IF HasActiveOverride(overrides, Head(r.queue), now, env.mongo = "up")
                  THEN GoesOn(job, r, Tail(r.queue))
                  ELSE [job EXCEPT !.runs = (@ \ {r}) \cup
                            {[r EXCEPT !.phase = "creating",
                                       !.expires_at = now + JobPenaltyMs]}]
    /\ UNCHANGED <<overrides, cache, reqs>>
    /\ JobFrame

\* What the run keeps of an override the detector created: whether the
\* tenant had an active override when it was stored.
DetectorCreated(id, tenant_id) ==
    [id |-> id, tenant_id |-> tenant_id,
     onTop |-> ActiveOf(overrides, tenant_id, now) # {}]

\* createOverride as both the detector and the operators call it.
Stored(o) ==
    /\ overrides' = overrides \cup {o}
    /\ cache' = CacheDelete(cache, InvalidatedKeys(o.tenant_id, o.user_id, o.endpoint))
    /\ reqs' = [reqs EXCEPT !.creates = @ + 1]

\* penalizeTenant after createOverride returned or threw.
JobCreated ==
    /\ \E r \in job.runs :
        /\ r.phase = "creating"
        /\ IF env.mongo = "up"
           THEN /\ Stored(NewOverride(reqs.creates + 1, Head(r.queue), Absent, Absent,
                                      PenaltyKind, r.expires_at))
                /\ job' = [GoesOn(job, r, Tail(r.queue))
                            EXCEPT !.created = @ \cup
                                {DetectorCreated(reqs.creates + 1, Head(r.queue))}]
           ELSE /\ job' = GoesOn(job, r, Tail(r.queue))
                /\ UNCHANGED <<overrides, cache, reqs>>
    /\ JobFrame

\* POST /admin/overrides with the required fields.
JobOperatorCreate ==
    /\ job.posted < MaxPosts
    /\ env.mongo = "up"
    /\ \E tenant_id \in PostTenants, duration_minutes \in DurationMinutes :
        Stored(NewOverride(reqs.creates + 1, tenant_id, Absent, Absent, BanKind,
                           now + duration_minutes * 60 * 1000))
    /\ job' = [job EXCEPT !.posted = @ + 1]
    /\ JobFrame

JobNext ==
    \/ OvTick
    \/ MongoFails
    \/ MongoHeals
    \/ JobStart
    \/ JobTimerFires
    \/ JobQueried
    \/ JobChecked
    \/ JobCreated
    \/ JobOperatorCreate

SpecJob == JobInit /\ [][JobNext]_vars

\* The job alone, with an override store that fails and recovers.
RunNext ==
    \/ MongoFails
    \/ MongoHeals
    \/ JobStart
    \/ JobTimerFires
    \/ JobQueried
    \/ JobChecked
    \/ JobCreated

SpecRun == JobInit /\ [][RunNext]_vars

\* C28: at most one run of the abuse detector is in flight at any time; a
\* timer tick or runDetection call that arrives while a run is executing
\* returns without querying the telemetry or creating overrides.
C28_OneRunInFlight ==
    /\ [](Cardinality(job.runs) <= 1)
    /\ [](job.running <=> job.runs # {})
    /\ [][job.running /\ job'.begun > job.begun =>
            /\ job'.runs = job.runs
            /\ job'.dropped = job.dropped + 1
            /\ overrides' = overrides]_vars

\* A call arrived while a run was creating an override, and was dropped.
C28_Witness ==
    /\ job.dropped > 0
    /\ \E r \in job.runs : r.phase = "creating"

\* The overrides of the detector that are active.
DetectorActive(tenant_id) ==
    {o \in ActiveOf(overrides, tenant_id, now) :
        \E c \in job.created : c.id = o.id}

\* C29: the abuse detector never creates an override for a tenant that
\* already has an active override of any shape, so repeated runs leave at
\* most one detector-created active override per tenant.
C29_DetectorSkipsPenalized ==
    /\ \A c \in job.created : ~c.onTop
    /\ \A t \in JobTenants : Cardinality(DetectorActive(t)) <= 1

\* Two active overrides of the detector for one tenant.
C29_TwoPenalties ==
    \E t \in JobTenants : Cardinality(DetectorActive(t)) >= 2

\* The detector skipped a tenant that has an active override.
C29_Skipped ==
    \E r \in job.runs :
        /\ r.phase = "checking"
        /\ Len(r.queue) = 1
        /\ r.queue = <<"B">>
        /\ ActiveOf(overrides, "A", now) # {}

\* C30: every override that exists was created with a finite expires_at
\* strictly later than its creation time, and when the detector is disabled
\* by its kill switch, start() schedules no run and the loop creates no
\* override.
C30_OverridesExpireLater ==
    /\ \A o \in overrides : o.expires_at > o.created_at
    /\ ~job.enabled =>
        /\ ~job.intervalId
        /\ job.begun = 0
        /\ job.created = {}

\* start() was called on a disabled job and nothing was scheduled.
C30_KillSwitch ==
    /\ ~job.enabled
    /\ job.starts > 0
    /\ ~job.intervalId
    /\ job.runs = {}

----------------------------------------------------------------------------
(* The Redis client and the script cache of the store (SpecCli) *)

\* How many bucket evaluations a run of the client may hold.
MaxCliCalls == 2

\* Up to how many EVALSHA commands and loadScripts calls of one evaluation
\* the run counts.
MaxCount == 3

CliPaths == {"single", "batch"}

\* No call yet.
NoCliCall == [path |-> "none", at |-> "idle", evals |-> 0, loads |-> 0]

\* The client as constructed: no sha, no script loaded, no call.
NewClient == [sha |-> FALSE, call |-> NoCliCall, calls |-> 0]

CliInit ==
    /\ now = 0
    /\ ticks = 0
    /\ store = << >>
    /\ cfg = [none |-> TRUE]
    /\ last = NoEval
    /\ hist = [evals |-> 0, allowed |-> 0, firstMs |-> 0, epochMs |-> 0,
               epochAllowed |-> 0]
    /\ ConcIdle
    /\ policies = NoPolicies
    /\ overrides = {}
    /\ cache = << >>
    /\ decision = NoDecision
    /\ lookup = NoLookup
    /\ reqs = [checks |-> 0, lookups |-> 0, creates |-> 0, deletes |-> 0]
    /\ applyCall = NoApplied
    /\ env = [Healthy EXCEPT !.scripts = FALSE]
    /\ scriptsLoaded = FALSE
    /\ breaker = NewBreaker(NoConfig)
    /\ fallback = << >>
    /\ calls = [running |-> 0, event |-> NoEvent]
    /\ deletedAt = NotDeleted
    /\ fbLog = << >>
    /\ pc = NoCache
    /\ job = NoJob
    /\ cli = NewClient

CliFrame ==
    UNCHANGED <<clockVars, store, primVars, concVars, svcVars, applyCall, breaker,
                fallback, calls, deletedAt, fbLog, pc, job>>

\* A counter of the run that stops at MaxCount.
Counted3(n) == IF n < MaxCount THEN n + 1 ELSE n

\* loadScripts: it returns at once when scriptsLoaded; otherwise both
\* scripts are loaded and the shas kept, or the store does not answer and
\* RedisError is thrown; the store may be lost between the two SCRIPT LOAD
\* commands, after the first sha was kept.
LoadScripts(e, loaded, sha) ==
    IF loaded
    THEN {[ok |-> TRUE, env |-> e, loaded |-> TRUE, sha |-> sha]}
    ELSE IF e.redis = "up"
         THEN {[ok |-> TRUE, env |-> [e EXCEPT !.scripts = TRUE], loaded |-> TRUE,
                sha |-> TRUE],
               [ok |-> FALSE, env |-> [e EXCEPT !.scripts = TRUE, !.redis = "down"],
                loaded |-> FALSE, sha |-> TRUE]}
         ELSE {[ok |-> FALSE, env |-> e, loaded |-> FALSE, sha |-> sha]}

\* The call after loadScripts: it calls itself again, or the error of
\* loadScripts ends it.
Reentered(call, l) ==
    IF l.ok THEN [call EXCEPT !.at = "enter", !.loads = Counted3(@)]
    ELSE [call EXCEPT !.at = "failed", !.loads = Counted3(@)]

\* What a step of the call does to the client and the store.
CliBecomes(call, l) ==
    /\ cli' = [cli EXCEPT !.sha = l.sha, !.call = call]
    /\ env' = l.env
    /\ scriptsLoaded' = l.loaded

\* The 'ready' event of the connection: loadScripts, its error dropped.
CliReady ==
    /\ env.redis = "up"
    /\ ~scriptsLoaded
    /\ \E l \in LoadScripts(env, scriptsLoaded, cli.sha) : CliBecomes(cli.call, l)
    /\ CliFrame

\* checkTokenBucket or batchCheckTokenBuckets is called.
CliCall ==
    /\ cli.call.at \in {"idle", "returned", "failed"}
    /\ cli.calls < MaxCliCalls
    /\ \E path \in CliPaths :
        cli' = [cli EXCEPT !.calls = @ + 1,
                           !.call = [path |-> path, at |-> "enter", evals |-> 0,
                                     loads |-> 0]]
    /\ UNCHANGED <<env, scriptsLoaded>>
    /\ CliFrame

\* The call up to its first await: without a sha it loads the scripts and
\* calls itself, with one it sends EVALSHA.
CliEnter ==
    /\ cli.call.at = "enter"
    /\ IF cli.sha
       THEN /\ cli' = [cli EXCEPT !.call.at = "evalsha", !.call.evals = Counted3(@)]
            /\ UNCHANGED <<env, scriptsLoaded>>
       ELSE \E l \in LoadScripts(env, scriptsLoaded, cli.sha) :
                CliBecomes(Reentered(cli.call, l), l)
    /\ CliFrame

\* The reply to EVALSHA: the result of the script, NOSCRIPT, or no reply
\* within the command timeout. checkTokenBucket answers NOSCRIPT by dropping
\* the sha, loading the scripts and calling itself; batchCheckTokenBuckets
\* throws RedisError.
CliReply ==
    /\ cli.call.at = "evalsha"
    /\ IF env.redis = "up" /\ env.scripts
       THEN /\ cli' = [cli EXCEPT !.call.at = "returned"]
            /\ UNCHANGED <<env, scriptsLoaded>>
       ELSE IF env.redis = "up" /\ cli.call.path = "single"
            THEN \E l \in LoadScripts(env, scriptsLoaded, FALSE) :
                    CliBecomes(Reentered(cli.call, l), l)
            ELSE /\ cli' = [cli EXCEPT !.call.at = "failed"]
                 /\ UNCHANGED <<env, scriptsLoaded>>
    /\ CliFrame

\* The store loses its script cache (restart, SCRIPT FLUSH, failover to a
\* node that never had the script).
CliScriptsLost ==
    /\ env.scripts
    /\ env' = [env EXCEPT !.scripts = FALSE]
    /\ UNCHANGED <<cli, scriptsLoaded>>
    /\ CliFrame

\* The store stops answering, and answers again.
CliStoreFails ==
    /\ env.redis = "up"
    /\ env' = [env EXCEPT !.redis = "down"]
    /\ UNCHANGED <<cli, scriptsLoaded>>
    /\ CliFrame

CliStoreHeals ==
    /\ env.redis = "down"
    /\ env' = [env EXCEPT !.redis = "up"]
    /\ UNCHANGED <<cli, scriptsLoaded>>
    /\ CliFrame

CliNext ==
    \/ CliReady
    \/ CliCall
    \/ CliEnter
    \/ CliReply
    \/ CliScriptsLost
    \/ CliStoreFails
    \/ CliStoreHeals

\* The event loop runs the continuations of the call, and every command is
\* answered or times out (commandTimeout).
SpecCli == CliInit /\ [][CliNext]_vars /\ WF_vars(CliEnter) /\ WF_vars(CliReply)

\* A bucket evaluation is running.
Evaluating == cli.call.at \in {"enter", "evalsha"}

\* C31: a bucket evaluation always terminates: when the store reports that
\* the script is not resident the client reloads the script and retries
\* exactly once, and any other or repeated failure is surfaced as a store
\* error rather than retried again.
C31_EvaluationTerminates ==
    /\ Evaluating ~> ~Evaluating
    /\ [](cli.call.evals <= 2)
    /\ [][cli.call.at = "evalsha" /\ env.redis = "up"
            /\ ~env.scripts /\ cli.call.evals = 1
          => cli'.call.at = "enter" /\ cli'.sha /\ env'.scripts]_vars

\* The call goes round without a sha and with nothing to load.
C31_Spinning ==
    /\ Evaluating
    /\ cli.call.at = "enter"
    /\ ~cli.sha
    /\ scriptsLoaded
    /\ cli.call.loads = MaxCount

\* An evaluation that met NOSCRIPT returned after one retry.
C31_RetriedOnce ==
    /\ cli.call.at = "returned"
    /\ cli.call.evals = 2

----------------------------------------------------------------------------
(* What a denied request leaves in the buckets (SpecDec) *)

\* The tokens the bucket of a check holds at time t: what the script would
\* find after its refill.
Held(st, check, t) ==
    CHOOSE tokens \in
        { IF rec = NoRecord THEN check.policy.burst_capacity * ONE
          ELSE IF t > rec.last_refill_ms
               THEN Refilled(check.policy.burst_capacity * ONE, rec.tokens,
                             RefillRate(check.policy), t - rec.last_refill_ms)
               ELSE rec.tokens :
            rec \in {Live(Read(st, check.key), t)} } : TRUE

\* The check list of the request the last decision answered.
ChecksOf(d) ==
    BuildChecks(policies.tenants[d.tenant_id], policies.global, d.tenant_id,
                d.user_id, d.endpoint)

\* The last request ran its checks and was denied.
DeniedByChecks ==
    /\ decision # NoDecision
    /\ decision.results # << >>
    /\ decision.state = "hard"

\* C32: a request whose aggregated decision is a hard deny consumes no token
\* from any scope: every bucket of its check list holds the same tokens
\* after the call as before it, the buckets whose own check allowed
\* included.
C32_DenyConsumesNothing ==
    DeniedByChecks =>
        \A i \in 1..Len(ChecksOf(decision)) :
            Held(store, ChecksOf(decision)[i], decision.at)
                = Held(decision.before, ChecksOf(decision)[i], decision.at)

\* A denied request whose tenant bucket allowed and holds one token less.
C32_DeniedAndConsumed ==
    /\ DeniedByChecks
    /\ \E i \in 1..Len(decision.results) :
        /\ decision.results[i].allowed
        /\ decision.results[i].scope = "tenant_global"
        /\ Held(store, ChecksOf(decision)[i], decision.at) + ONE
            = Held(decision.before, ChecksOf(decision)[i], decision.at)

\* The bucket that denied the request is left as it was.
C32_DenyingBucketUntouched ==
    /\ DeniedByChecks
    /\ \E i \in 1..Len(decision.results) :
        /\ ~decision.results[i].allowed
        /\ Read(store, ChecksOf(decision)[i].key)
            = Read(decision.before, ChecksOf(decision)[i].key)

----------------------------------------------------------------------------
(* allowed and state of the decisions of enforcement mode (SpecMw) *)

\* checkRateLimit answered a request of enforcement mode.
Enforced == Answered /\ decision.mode = "enforcement"

\* C33: every decision checkRateLimit returns in enforcement mode, from the
\* buckets, from a temporary ban or from the fallback limiter, has
\* allowed = false exactly when its state is hard.
C33_DeniedIffHard ==
    Enforced => (~decision.allowed <=> decision.state = "hard")

\* The fallback limiter refused a request and called its state soft.
C33_FallbackDeniesSoft ==
    /\ Enforced
    /\ decision.path = "fallback"
    /\ ~decision.allowed
    /\ decision.state = "soft"

\* On the primary path the two agree: a ban and a bucket denial are hard.
C33_PrimaryAgrees ==
    (Enforced /\ decision.path = "primary")
        => (~decision.allowed <=> decision.state = "hard")

\* A ban refused a request of enforcement mode.
C33_BanDenied ==
    /\ Enforced
    /\ decision.path = "primary"
    /\ ~decision.allowed
    /\ decision.scope = "tenant_global"
    /\ decision.response.body # NotSet
    /\ decision.response.body.limit = 0

----------------------------------------------------------------------------
(* The override cache after a mutation (SpecOv) *)

\* The override a step created or deleted.
Mutated(before, after) == (after \ before) \cup (before \ after)

\* C34: when createOverride or deleteOverride of an override with fields
\* (t, u, e) returns, none of the four cache keys (t,u,e), (t,u,none),
\* (t,none,e), (t,none,none) holds a cached lookup result, so that no result
\* cached before the mutation under a less specific key masks the override.
C34_MutationClearsFourKeys ==
    [][(reqs'.creates > reqs.creates \/ reqs'.deletes > reqs.deletes)
        => \A o \in Mutated(overrides, overrides') :
            \A u \in {o.user_id, Absent}, e \in {o.endpoint, Absent} :
                CacheGet(cache', GetCacheKey(o.tenant_id, u, e), now') = Miss]_vars

\* The tenant-wide lookup of tenant A was cached, and an override of a user
\* and an endpoint created after it has removed the entry.
C34_Witness ==
    /\ lookup # NoLookup
    /\ lookup.user_id = Absent
    /\ lookup.endpoint = Absent
    /\ \E o \in overrides :
        /\ o.user_id # Absent
        /\ o.endpoint # Absent
        /\ o.created_at >= lookup.at
    /\ GetCacheKey("A", Absent, Absent) \notin DOMAIN cache

----------------------------------------------------------------------------
(* The policy cache while tenant policies are deleted (SpecPd) *)

\* The tenant whose policy is deleted.
PdTenants == {"A"}

\* A tenant policy is deleted from the policy store by another process.
PdDelete ==
    /\ \E t \in PdTenants :
        /\ pc.stored[t] # NotFound
        /\ pc' = [pc EXCEPT !.stored[t] = NotFound]
    /\ UNCHANGED clockVars
    /\ PcFrame

\* deleteTenantPolicy of this process up to the await: the store has deleted
\* the policy, invalidateTenant follows.
PdDeleteTenantPolicy ==
    /\ \E t \in PdTenants :
        /\ pc.stored[t] # NotFound
        /\ pc' = [pc EXCEPT !.stored[t] = NotFound,
                            !.invalidating = @ \cup {[tenant_id |-> t, issuedAt |-> now]}]
    /\ UNCHANGED clockVars
    /\ PcFrame

\* The change stream delivers the delete event of a tenant policy: the
\* callback gets no tenant_id and invalidateGlobal is called.
PdDeleteEvent ==
    /\ \E t \in PdTenants :
        /\ pc.stored[t] = NotFound
        /\ t \notin pc.swept
        /\ pc' = [pc EXCEPT !.swept = @ \cup {t}]
    /\ UNCHANGED clockVars
    /\ PcFrame

PdNext ==
    \/ PcTick
    \/ PcLoadHit
    \/ PcLoadMiss
    \/ PcMissLands
    \/ PcInvalidate
    \/ PcRefreshFires
    \/ PcRefreshLands
    \/ PdDelete
    \/ PdDeleteTenantPolicy
    \/ PdDeleteEvent

SpecPd == PcInit /\ [][PdNext]_vars

\* C35: a background refresh reloads every tenant id resident in the policy
\* cache: an id the store still has is replaced by the fresh policy, an id
\* the store no longer has is evicted; so after a refresh, or after a delete
\* change event, no deleted tenant's policy is served from the cache.
C35_RefreshEvictsDeleted ==
    /\ [][pc.refresh # NoRefresh /\ pc'.refresh # pc.refresh
            => pc'.entries[pc.refresh.reading.tenant_id]
                = IF pc.refresh.reading.v = NotFound THEN NotCached
                  ELSE [v |-> pc.refresh.reading.v, at |-> now]]_vars
    /\ [][pc'.loads > pc.loads /\ pc'.loaded # pc.loaded
            => pc'.loaded.tenant_id \notin pc.swept]_vars

\* The refresh has read that the tenant is gone, nothing waits for the
\* store, and the policy of the tenant is still in the cache.
C35_DeletedStillCached ==
    \E t \in pc.swept :
        /\ Fresh(pc, t, now)
        /\ Awaited(pc) = {}
        /\ now >= RefreshIntervalMs

\* The policy of a tenant deleted through this process is evicted.
C35_LocalDeleteEvicts ==
    \E t \in PcTenants :
        /\ pc.stored[t] = NotFound
        /\ pc.entries[t] = NotCached
        /\ pc.loaded # NoLoad
        /\ pc.loaded.tenant_id = t
        /\ pc.loaded.v # NotFound

----------------------------------------------------------------------------
(* The state of an allowed evaluation (SpecPrim) *)

\* The state the thresholds give to the tokens the evaluation found after
\* its refill, before it consumed.
ClassifiedBefore(capacity, tokens, soft, hard) ==
    IF PreHard(capacity, tokens, hard) THEN 2
    ELSE IF InSoft(capacity, tokens, soft) THEN 1
    ELSE 0

\* C36: the state an allowed evaluation returns is the classification of the
\* usage before consumption (soft when the usage before consumption is at or
\* above soft_pct, normal otherwise); consuming the token changes the state
\* only through the overshoot guard, to hard with allowed = 0.
C36_StateIsPreConsumption ==
    last # NoEval =>
        \/ last.state = ClassifiedBefore(cfg.capacity, last.preTokens, cfg.th[1],
                                         cfg.th[2])
        \/ ~last.allowed /\ last.state = 2

\* An allowed evaluation that found the usage below soft_pct and answers
\* soft.
C36_SoftByConsumption ==
    /\ last # NoEval
    /\ last.allowed
    /\ last.state = 1
    /\ ~InSoft(cfg.capacity, last.preTokens, cfg.th[1])

\* An evaluation the overshoot guard turned to hard.
C36_GuardTurnsHard ==
    /\ last # NoEval
    /\ ~last.allowed
    /\ last.state = 2
    /\ ClassifiedBefore(cfg.capacity, last.preTokens, cfg.th[1], cfg.th[2]) < 2

----------------------------------------------------------------------------
(* What counts toward closing the breaker (SpecCB) *)

\* C37: only the outcomes of operations admitted while the breaker is
\* HALF_OPEN count toward success_threshold: the success of an operation
\* that was started before the circuit opened and completes while it is
\* HALF_OPEN does not move the breaker toward CLOSED, however concurrent
\* execute calls interleave.
C37_OnlyTrialsCount ==
    (EventIn("success", "HALF_OPEN") /\ calls.event.of = "old")
        => /\ calls.event.after.state = "HALF_OPEN"
           /\ calls.event.after.successes = calls.event.before.successes

\* The success of an operation started while the breaker was CLOSED has
\* closed the breaker, while the trial operation is still running.
C37_OldSuccessCloses ==
    /\ EventIn("success", "HALF_OPEN")
    /\ calls.event.of = "old"
    /\ calls.event.after.state = "CLOSED"
    /\ calls.running > 0

\* The success of a trial operation counts.
C37_TrialSuccessCounts ==
    /\ EventIn("success", "HALF_OPEN")
    /\ calls.event.of = "trial"
    /\ calls.event.after.successes = 1
    /\ calls.event.after.state = "HALF_OPEN"

----------------------------------------------------------------------------
(* What the 'redis' breaker counts as a failure (SpecMw) *)

\* C38: the failure counter of the 'redis' breaker is incremented only by
\* store errors of the bucket-engine call; a PolicyNotFound or another error
\* of the policy backend neither counts as a failure nor can open the
\* circuit.
C38_OnlyStoreErrorsCount ==
    [][(breaker'.failures > breaker.failures
            \/ (breaker'.state = "OPEN" /\ breaker.state # "OPEN"))
        => (decision'.path = "fallback" /\ decision'.error = "RedisError")]_vars

\* A request of a tenant without policy has opened the circuit while the
\* store answers.
C38_PolicyNotFoundOpens ==
    /\ Answered
    /\ decision.error = "PolicyNotFound"
    /\ decision.breakerBefore = "CLOSED"
    /\ breaker.state = "OPEN"
    /\ env.redis = "up"

\* A store error of the bucket engine counts as a failure.
C38_StoreErrorCounts ==
    /\ Answered
    /\ decision.error = "RedisError"
    /\ breaker.failures > 0

----------------------------------------------------------------------------
(* The expiry of the key against continuous refill (SpecPrim) *)

\* The evaluation found a key whose ttl had run out and started from a full
\* bucket.
FoundExpired ==
    /\ last # NoEval
    /\ last.before # NoRecord
    /\ last.read = NoRecord

\* The tokens continuous refill would have given the last evaluation, from
\* the record the key held.
ContinuousRefill ==
    Refilled(cfg.capacity, last.before.tokens, cfg.rate,
             last.at - last.before.last_refill_ms)

\* C39: the expiry of a bucket key, 3600 s after the last allowed
\* evaluation, never gives a caller more tokens than continuous refill would
\* have: when a key has expired and is re-created full, the bucket would have
\* refilled to capacity by then, for every valid policy.
C39_ExpiryWithinRefill ==
    FoundExpired => last.preTokens <= ContinuousRefill

\* An evaluation after the expiry that starts with the whole capacity where
\* continuous refill would not have given one token.
C39_ExpiryGivesMore ==
    /\ FoundExpired
    /\ last.allowed
    /\ ContinuousRefill < ONE
    /\ last.preTokens = cfg.capacity

\* A bucket whose rate fills it within the ttl loses nothing by the expiry.
C39_ExpiryOfFastBucket ==
    /\ FoundExpired
    /\ cfg.capacity \div 1000 <= cfg.rate * TtlSeconds
    /\ last.preTokens = ContinuousRefill

----------------------------------------------------------------------------
(* The decisioner with hard thresholds above 100 % (SpecRem) *)

\* Tenant A has no soft threshold, tenant B warns at 100 %; both reject at
\* 150 % or at 200 % of a bucket of two tokens.
RemPolicies ==
    { [tenants |->
         ("A" :> [user |-> NoPolicy, user_endpoints |-> NoEndpoints,
                  tenant |-> Burst(2), tenant_endpoints |-> NoEndpoints,
                  throttle_config |-> [soft_threshold_pct |-> Undefined,
                                       hard_threshold_pct |-> hard]])
         @@ ("B" :> [user |-> NoPolicy, user_endpoints |-> NoEndpoints,
                     tenant |-> Burst(2), tenant_endpoints |-> NoEndpoints,
                     throttle_config |-> [soft_threshold_pct |-> 100,
                                          hard_threshold_pct |-> hard]]),
       global |-> [global |-> Burst(5), endpoints |-> NoEndpoints]] :
        hard \in {150, 200} }

RemInit ==
    /\ now = 0
    /\ ticks = 0
    /\ store = << >>
    /\ cfg = [none |-> TRUE]
    /\ last = NoEval
    /\ hist = [evals |-> 0, allowed |-> 0, firstMs |-> 0, epochMs |-> 0,
               epochAllowed |-> 0]
    /\ ConcIdle
    /\ policies \in RemPolicies
    /\ overrides = {}
    /\ cache = << >>
    /\ decision = NoDecision
    /\ lookup = NoLookup
    /\ ExtIdle
    /\ reqs = [checks |-> 0, lookups |-> 0, creates |-> 0, deletes |-> 0]

SpecRem == RemInit /\ [][DecNext]_vars

\* C40: the remaining field of every decision is never negative, also in
\* the soft zone of a policy whose hard_threshold_pct is above 100.
C40_RemainingNeverNegative ==
    decision # NoDecision => decision.remaining >= 0

\* An allowed decision in the soft zone that reports a negative remaining.
C40_NegativeInSoftZone ==
    /\ decision # NoDecision
    /\ decision.allowed
    /\ decision.state = "soft"
    /\ decision.remaining < 0

====
